---- MODULE Spec2Model ----
(***************************************************************************)
(* The worldedit command engine of src/src/plot/worldedit.rs: command      *)
(* dispatch (execute_command), the argument parser, the clipboard          *)
(* capture/paste routines, the per-player undo stack and the bound         *)
(* operations of the command table.                                        *)
(*                                                                         *)
(* A dispatch runs to completion, so one dispatch is one step.  The step   *)
(* threads a record s = [blocks, ents, players, ev, ret] through the       *)
(* operators that model the functions of the source, in the order the      *)
(* source calls them.  ev is the log of the calls the dispatch makes to    *)
(* the world and to the clients; ret is "running" while the dispatch       *)
(* runs and afterwards "handled" (true returned), "unhandled" (false       *)
(* returned) or "panic" (a Rust panic unwound the dispatch).               *)
(*                                                                         *)
(* Text is modelled as sequences of one-character strings, so that         *)
(* starts_with, chars().skip(1) and split(' ') are computed and not        *)
(* assumed.                                                                *)
(***************************************************************************)
EXTENDS Integers, Sequences, FiniteSets, TLC

VARIABLES
    blocks,     \* the block id of every modelled cell (Plot's chunk storage)
    ents,       \* the block entity of every modelled cell, or NoEnt
    players,    \* Player structs: position, facing, selection, clipboard, undo
    last,       \* the last dispatch: its input, its log and the state before it
    prev,       \* the dispatch before the last
    steps       \* number of dispatches so far

vars == <<blocks, ents, players, last, prev, steps>>

----------------------------------------------------------------------------
(* Bounds of the model: the number of dispatches of a behaviour *)

MaxCmdSteps == 2
MaxEditSteps == 3
MaxRoundTrips == 1
MaxFlagSteps == 1
MaxPatternSteps == 2
MaxTwoSteps == 3
MaxSchemSteps == 2
MaxMutations == 3
MaxUndoDepth == 3
MaxStackSteps == 2

----------------------------------------------------------------------------
(* Text helpers *)

Digits == {"0", "1", "2", "3", "4", "5", "6", "7", "8", "9"}

RECURSIVE Join(_)
Join(cs) == IF cs = <<>> THEN "" ELSE Head(cs) \o Join(Tail(cs))

\* str::starts_with(c)
StartsWith(tok, c) == Len(tok) >= 1 /\ tok[1] = c

\* str::split(sep): the pieces between the separators, empty pieces included
RECURSIVE SplitFrom(_, _, _, _)
SplitFrom(cs, sep, i, cur) ==
    IF i > Len(cs) THEN <<cur>>
    ELSE IF cs[i] = sep THEN <<cur>> \o SplitFrom(cs, sep, i + 1, <<>>)
    ELSE SplitFrom(cs, sep, i + 1, Append(cur, cs[i]))

Split(cs, sep) == SplitFrom(cs, sep, 1, <<>>)

\* Vec::remove(idx) with a 0-based index, for idx < len
RemoveAt(seq, idx) ==
    [k \in 1..(Len(seq) - 1) |-> IF k <= idx THEN seq[k] ELSE seq[k + 1]]

----------------------------------------------------------------------------
(* Positions *)

BlockPos(x, y, z) == [x |-> x, y |-> y, z |-> z]

Min(a, b) == IF a <= b THEN a ELSE b
Max(a, b) == IF a >= b THEN a ELSE b

PosMin(a, b) == BlockPos(Min(a.x, b.x), Min(a.y, b.y), Min(a.z, b.z))
PosMax(a, b) == BlockPos(Max(a.x, b.x), Max(a.y, b.y), Max(a.z, b.z))
PosSub(a, b) == BlockPos(a.x - b.x, a.y - b.y, a.z - b.z)
PosAdd(a, b) == BlockPos(a.x + b.x, a.y + b.y, a.z + b.z)

\* i32 >> 4 (arithmetic shift: rounds towards minus infinity)
Shr4(v) == v \div 16

----------------------------------------------------------------------------
(* The block registry (crate::blocks), an external collaborator: three     *)
(* block states stand for it.  Id 0 is air, the "empty" id the source      *)
(* compares against; barrel is a block that carries a block entity.        *)

AIR == 0
STONE == 1
BARREL == 2
Ids == {AIR, STONE, BARREL}

BlockNames == [stone |-> STONE, air |-> AIR, barrel |-> BARREL]

\* Block::from_name(name) -> Option<Block>
KnownName(name) == name \in DOMAIN BlockNames
BlockFromName(name) == BlockNames[name]

\* Block::from_id(id).get_id(): ids outside the registry decode to air
BlockFromId(id) == IF id \in Ids THEN id ELSE AIR

\* Block::has_block_entity()
HasBlockEntity(id) == id = BARREL

NoEnt == "none"
EntVals == {"e1", "e2"}

\* BlockFacing::offset_pos(pos, n)
Facings == {"north", "south", "east", "west", "up", "down"}
OffsetPos(facing, pos, n) ==
    CASE facing = "north" -> BlockPos(pos.x, pos.y, pos.z - n)
      [] facing = "south" -> BlockPos(pos.x, pos.y, pos.z + n)
      [] facing = "east"  -> BlockPos(pos.x + n, pos.y, pos.z)
      [] facing = "west"  -> BlockPos(pos.x - n, pos.y, pos.z)
      [] facing = "up"    -> BlockPos(pos.x, pos.y + n, pos.z)
      [] facing = "down"  -> BlockPos(pos.x, pos.y - n, pos.z)

----------------------------------------------------------------------------
(* The world (super::Plot), an external collaborator.  Two plots lie side  *)
(* by side on the x axis; of each plot the model keeps a window of cells   *)
(* that straddles a chunk border.  Cells outside the window are not kept:  *)
(* they read as air and a write to them changes nothing.                   *)

PlotWidth == 256
Plots == {0, 1}
PlotZ == 0

WinX == {15, 16}
WinY == {0}
WinZ == {0, 1}

PlotCells(plot_x) ==
    {BlockPos(plot_x * PlotWidth + x, y, PlotZ * PlotWidth + z) :
        x \in WinX, y \in WinY, z \in WinZ}

Cells == UNION {PlotCells(p) : p \in Plots}

\* Plot::in_plot_bounds(plot_x, plot_z, x, z)
InPlotBounds(plot_x, plot_z, x, z) ==
    /\ x >= plot_x * PlotWidth
    /\ x < (plot_x + 1) * PlotWidth
    /\ z >= plot_z * PlotWidth
    /\ z < (plot_z + 1) * PlotWidth

\* plot.get_chunk(chunk_x, chunk_z).is_some()
HasChunk(plot_x, chunk_x, chunk_z) ==
    InPlotBounds(plot_x, PlotZ, chunk_x * 16, chunk_z * 16)

\* the players of plot.players
\* f64::floor() as i32 and "f64 as i32" (truncation) of a coordinate kept in
\* half blocks
Floor2(v) == v \div 2
Trunc2(v) == IF v >= 0 THEN v \div 2 ELSE -((-v) \div 2)

\* the plot a player stands in
PlayerPlot(pl) == Floor2(pl.x) \div PlotWidth

PlotPlayers(s, plot_x) == {q \in DOMAIN s.players : PlayerPlot(s.players[q]) = plot_x}

\* Appends one entry to the log of the dispatch
Log(s, kind, who, pos, val) ==
    [s EXCEPT !.ev = Append(@, [kind |-> kind, who |-> who, pos |-> pos, val |-> val])]

NoPos == BlockPos(-1, -1, -1)

\* plot.get_block_raw(pos)
GetBlockRaw(s, plot_x, pos) ==
    IF pos \in PlotCells(plot_x) THEN s.blocks[pos] ELSE AIR

\* plot.get_block(pos)
GetBlock(s, plot_x, pos) == BlockFromId(GetBlockRaw(s, plot_x, pos))

\* plot.get_block_entity(pos)
GetBlockEntity(s, plot_x, pos) ==
    IF pos \in PlotCells(plot_x) THEN s.ents[pos] ELSE NoEnt

\* the bool plot.set_block_raw(pos, id) returns: whether the cell changed
SetBlockChanges(s, plot_x, pos, id) ==
    pos \in PlotCells(plot_x) /\ s.blocks[pos] # id

\* plot.set_block_raw(pos, id)
SetBlockRaw(s, plot_x, pos, id) ==
    LET t == Log(s, "set_block", plot_x, pos, id)
    IN  IF pos \in PlotCells(plot_x)
        THEN [t EXCEPT !.blocks[pos] = id]
        ELSE t

\* plot.set_block_entity(pos, block_entity)
SetBlockEntity(s, plot_x, pos, ent) ==
    LET t == Log(s, "set_entity", plot_x, pos, ent)
    IN  IF pos \in PlotCells(plot_x)
        THEN [t EXCEPT !.ents[pos] = ent]
        ELSE t

\* player.send_error_message / send_system_message / send_worldedit_message
\* player.send_worldedit_message(text)
SendMessage(s, p, text) == Log(s, "msg", p, NoPos, text)

\* player.send_error_message(text)
SendErrorMessage(s, p, text) == Log(s, "error", p, NoPos, text)

\* player.send_system_message(text)
SendSystemMessage(s, p, text) == Log(s, "system", p, NoPos, text)

\* chunk.encode_packet(false) sent to every player of the plot
RECURSIVE SendChunkTo(_, _, _, _)
SendChunkTo(s, to, chunk_x, chunk_z) ==
    IF to = {} THEN s
    ELSE LET q == CHOOSE q \in to : TRUE
         IN  SendChunkTo(Log(s, "chunk", q, BlockPos(chunk_x, 0, chunk_z), "data"),
                         to \ {q}, chunk_x, chunk_z)

SendChunk(s, plot_x, chunk_x, chunk_z) ==
    IF HasChunk(plot_x, chunk_x, chunk_z)
    THEN SendChunkTo(s, PlotPlayers(s, plot_x), chunk_x, chunk_z)
    ELSE s

----------------------------------------------------------------------------
(* Clipboards: WorldEditClipboard, create_clipboard, clear_area,           *)
(* paste_clipboard, capture_undo.  PalettedBitBuffer is a sequence of ids  *)
(* (entry i of the buffer is element i + 1 of the sequence).               *)

\* The position the loops "for y { for z { for x" reach at their i-th pass
\* (i from 0), over a cuboid of the given start and x and z sizes
NthYZX(start, size_x, size_z, i) ==
    BlockPos(start.x + (i % size_x),
             start.y + (i \div (size_x * size_z)),
             start.z + ((i \div size_x) % size_z))

\* create_clipboard with the offset taken from the start to the origin
create_clipboard_OffsetReversed(s, plot_x, origin, first_pos, second_pos) ==
    LET start_pos == PosMin(first_pos, second_pos)
        end_pos == PosMax(first_pos, second_pos)
        size_x == (end_pos.x - start_pos.x) + 1
        size_y == (end_pos.y - start_pos.y) + 1
        size_z == (end_pos.z - start_pos.z) + 1
        offset == PosSub(start_pos, origin)
        n == size_x * size_y * size_z
        at(i) == NthYZX(start_pos, size_x, size_z, i)
        withEnt == {i \in 0..(n - 1) :
                      /\ HasBlockEntity(GetBlock(s, plot_x, at(i)))
                      /\ GetBlockEntity(s, plot_x, at(i)) # NoEnt}
    IN  [offset_x |-> offset.x, offset_y |-> offset.y, offset_z |-> offset.z,
         size_x |-> size_x, size_y |-> size_y, size_z |-> size_z,
         data |-> [i \in 1..n |-> GetBlockRaw(s, plot_x, at(i - 1))],
         block_entities |->
            [rel \in {PosSub(at(i), start_pos) : i \in withEnt} |->
                GetBlockEntity(s, plot_x, PosAdd(rel, start_pos))]]

create_clipboard(s, plot_x, origin, first_pos, second_pos) ==
    LET start_pos == PosMin(first_pos, second_pos)
        end_pos == PosMax(first_pos, second_pos)
        size_x == (end_pos.x - start_pos.x) + 1
        size_y == (end_pos.y - start_pos.y) + 1
        size_z == (end_pos.z - start_pos.z) + 1
        offset == PosSub(origin, start_pos)
        n == size_x * size_y * size_z
        at(i) == NthYZX(start_pos, size_x, size_z, i)
        withEnt == {i \in 0..(n - 1) :
                      /\ HasBlockEntity(GetBlock(s, plot_x, at(i)))
                      /\ GetBlockEntity(s, plot_x, at(i)) # NoEnt}
    IN  [offset_x |-> offset.x, offset_y |-> offset.y, offset_z |-> offset.z,
         size_x |-> size_x, size_y |-> size_y, size_z |-> size_z,
         data |-> [i \in 1..n |-> GetBlockRaw(s, plot_x, at(i - 1))],
         block_entities |->
            [rel \in {PosSub(at(i), start_pos) : i \in withEnt} |->
                GetBlockEntity(s, plot_x, PosAdd(rel, start_pos))]]

\* The chunk loops "for chunk_x in xs { for chunk_z in zs": the i-th pass
SendChunks(s, plot_x, cx_from, cx_to, cz_from, cz_to) ==
    LET nz == cz_to - cz_from + 1
        n == IF cx_to < cx_from \/ nz <= 0 THEN 0 ELSE (cx_to - cx_from + 1) * nz
        F[i \in 0..n] ==
            IF i = 0 THEN s
            ELSE SendChunk(F[i - 1], plot_x,
                           cx_from + ((i - 1) \div nz), cz_from + ((i - 1) % nz))
    IN  F[n]

clear_area(s, plot_x, first_pos, second_pos) ==
    LET start_pos == PosMin(first_pos, second_pos)
        end_pos == PosMax(first_pos, second_pos)
        size_x == end_pos.x - start_pos.x + 1
        size_z == end_pos.z - start_pos.z + 1
        n == size_x * (end_pos.y - start_pos.y + 1) * size_z
        F[i \in 0..n] ==
            IF i = 0 THEN s
            ELSE SetBlockRaw(F[i - 1], plot_x, NthYZX(start_pos, size_x, size_z, i - 1), AIR)
    IN  SendChunks(F[n], plot_x, Shr4(start_pos.x), Shr4(end_pos.x),
                   Shr4(start_pos.z), Shr4(end_pos.z))

\* The block-entity loop of paste_clipboard.  The source iterates a HashMap,
\* whose order is unspecified; the keys are distinct, so the writes commute.
RECURSIVE PasteEntities(_, _, _, _, _)
PasteEntities(s, plot_x, cb, offset, todo) ==
    IF todo = {} THEN s
    ELSE LET pos == CHOOSE p \in todo : TRUE
         IN  PasteEntities(
                SetBlockEntity(s, plot_x, PosAdd(pos, offset), cb.block_entities[pos]),
                plot_x, cb, offset, todo \ {pos})

\* PasteCells writing the air entries whatever ignore_air says
PasteCells_WritesAir(s, plot_x, cb, offset, ignore_air) ==
    LET entries == Len(cb.data)
        n == cb.size_x * cb.size_y * cb.size_z
        F[i \in 0..n] ==
            IF i = 0 THEN s
            ELSE IF i - 1 >= entries THEN F[i - 1]
            ELSE SetBlockRaw(F[i - 1], plot_x,
                             NthYZX(offset, cb.size_x, cb.size_z, i - 1), cb.data[i])
    IN  F[n]

\* The cell loop of paste_clipboard
PasteCells(s, plot_x, cb, offset, ignore_air) ==
    LET entries == Len(cb.data)
        n == cb.size_x * cb.size_y * cb.size_z
        F[i \in 0..n] ==
            IF i = 0 THEN s
            ELSE IF i - 1 >= entries THEN F[i - 1]
            ELSE LET entry == cb.data[i]
                 IN  IF ignore_air /\ entry = AIR THEN F[i - 1]
                     ELSE SetBlockRaw(F[i - 1], plot_x,
                                      NthYZX(offset, cb.size_x, cb.size_z, i - 1), entry)
    IN  F[n]

\* paste_clipboard writing the block entities before the cells
paste_clipboard_EntitiesFirst(s, plot_x, cb, pos, ignore_air) ==
    LET offset == BlockPos(pos.x - cb.offset_x, pos.y - cb.offset_y, pos.z - cb.offset_z)
        s1 == PasteEntities(s, plot_x, cb, offset, DOMAIN cb.block_entities)
        s2 == PasteCells(s1, plot_x, cb, offset, ignore_air)
    IN  SendChunks(s2, plot_x,
                   Shr4(offset.x), Shr4(offset.x + cb.size_x),
                   Shr4(offset.z), Shr4(offset.z + cb.size_z))

\* paste_clipboard with the air test applied whatever ignore_air says
paste_clipboard_SkipsAir(s, plot_x, cb, pos, ignore_air) ==
    LET offset == BlockPos(pos.x - cb.offset_x, pos.y - cb.offset_y, pos.z - cb.offset_z)
        s1 == PasteCells(s, plot_x, cb, offset, TRUE)
        s2 == SendChunks(s1, plot_x,
                         Shr4(offset.x), Shr4(offset.x + cb.size_x),
                         Shr4(offset.z), Shr4(offset.z + cb.size_z))
    IN  PasteEntities(s2, plot_x, cb, offset, DOMAIN cb.block_entities)

\* paste_clipboard sending the chunks before it writes the cells
paste_clipboard_ChunksFirst(s, plot_x, cb, pos, ignore_air) ==
    LET offset == BlockPos(pos.x - cb.offset_x, pos.y - cb.offset_y, pos.z - cb.offset_z)
        s1 == SendChunks(s, plot_x,
                         Shr4(offset.x), Shr4(offset.x + cb.size_x),
                         Shr4(offset.z), Shr4(offset.z + cb.size_z))
        s2 == PasteCells(s1, plot_x, cb, offset, ignore_air)
    IN  PasteEntities(s2, plot_x, cb, offset, DOMAIN cb.block_entities)

paste_clipboard(s, plot_x, cb, pos, ignore_air) ==
    LET offset == BlockPos(pos.x - cb.offset_x, pos.y - cb.offset_y, pos.z - cb.offset_z)
        s1 == PasteCells(s, plot_x, cb, offset, ignore_air)
        s2 == SendChunks(s1, plot_x,
                         Shr4(offset.x), Shr4(offset.x + cb.size_x),
                         Shr4(offset.z), Shr4(offset.z + cb.size_z))
    IN  PasteEntities(s2, plot_x, cb, offset, DOMAIN cb.block_entities)

\* capture_undo pushing the entry on the stack of every player of the plot
capture_undo_SharedHistory(s, plot_x, player, first_pos, second_pos) ==
    LET origin == PosMin(first_pos, second_pos)
        cb == create_clipboard(s, plot_x, origin, first_pos, second_pos)
        undo == [clipboard |-> cb, pos |-> origin, plot_x |-> plot_x, plot_z |-> PlotZ]
        t == [s EXCEPT !.players =
                [q \in DOMAIN s.players |->
                    IF PlayerPlot(s.players[q]) = plot_x
                    THEN [s.players[q] EXCEPT !.worldedit_undo = Append(@, undo)]
                    ELSE s.players[q]]]
    IN  Log(t, "undo_push", player, origin, "undo")

capture_undo(s, plot_x, player, first_pos, second_pos) ==
    LET origin == PosMin(first_pos, second_pos)
        cb == create_clipboard(s, plot_x, origin, first_pos, second_pos)
        undo == [clipboard |-> cb, pos |-> origin, plot_x |-> plot_x, plot_z |-> PlotZ]
        t == [s EXCEPT !.players[player].worldedit_undo = Append(@, undo)]
    IN  Log(t, "undo_push", player, origin, "undo")

----------------------------------------------------------------------------
(* Patterns: WorldEditPattern::from_str, matches, pick.                     *)
(* A weight is kept in millionths (the f32 "percent / 100.0" times 10^6).  *)

Letters ==
    {"a", "b", "c", "d", "e", "f", "g", "h", "i", "j", "k", "l", "m", "n", "o", "p",
     "q", "r", "s", "t", "u", "v", "w", "x", "y", "z", "_",
     "A", "B", "C", "D", "E", "F", "G", "H", "I", "J", "K", "L", "M", "N", "O", "P",
     "Q", "R", "S", "T", "U", "V", "W", "X", "Y", "Z"}

AlNum == (Letters \ {"_"}) \cup Digits

DigitVal(c) ==
    CASE c = "0" -> 0 [] c = "1" -> 1 [] c = "2" -> 2 [] c = "3" -> 3 [] c = "4" -> 4
      [] c = "5" -> 5 [] c = "6" -> 6 [] c = "7" -> 7 [] c = "8" -> 8 [] c = "9" -> 9

\* The value of a run of decimal digits
RECURSIVE DecVal(_)
DecVal(ds) ==
    IF ds = <<>> THEN 0
    ELSE DecVal(SubSeq(ds, 1, Len(ds) - 1)) * 10 + DigitVal(ds[Len(ds)])

\* The end (exclusive) of the longest run of characters of `set` from index i
RECURSIVE RunEnd(_, _, _)
RunEnd(cs, i, set) ==
    IF i <= Len(cs) /\ cs[i] \in set THEN RunEnd(cs, i + 1, set) ELSE i

\* u32::MAX, digit by digit (its value exceeds the integers of the checker)
U32MaxDigits == <<"4", "2", "9", "4", "9", "6", "7", "2", "9", "5">>

RECURSIVE StripZeros(_)
StripZeros(ds) ==
    IF Len(ds) > 1 /\ Head(ds) = "0" THEN StripZeros(Tail(ds)) ELSE ds

\* a <= b for two digit runs of the same length
RECURSIVE DigitsLeq(_, _)
DigitsLeq(a, b) ==
    \/ a = <<>>
    \/ DigitVal(Head(a)) < DigitVal(Head(b))
    \/ Head(a) = Head(b) /\ DigitsLeq(Tail(a), Tail(b))

\* str::parse::<u32>() succeeds: an optional '+', then digits of a value
\* that fits 32 bits
ParsesAsU32(cs) ==
    LET ds == IF StartsWith(cs, "+") THEN Tail(cs) ELSE cs
        sig == StripZeros(ds)
    IN  /\ ds # <<>>
        /\ \A i \in 1..Len(ds) : ds[i] \in Digits
        /\ \/ Len(sig) < 10
           \/ Len(sig) = 10 /\ DigitsLeq(sig, U32MaxDigits)

\* the value str::parse::<u32>() yields
U32Value(cs) == DecVal(StripZeros(IF StartsWith(cs, "+") THEN Tail(cs) ELSE cs))

Pow10(k) == CASE k = 0 -> 1 [] k = 1 -> 10 [] k = 2 -> 100 [] k = 3 -> 1000 [] k >= 4 -> 10000

\* An f32 below 8 is kept as the integer n with the value n / 2^28: every
\* f32 from 1/32 up is such a multiple, and so are the sums and differences
\* of such multiples.  A weight below 1/32 is kept to the nearest 2^-28.
Quantum == 268435456
Mantissa == 16777216

\* The spacing of the f32 values around n > 0: an f32 has 24 significant bits
RECURSIVE Ulp(_, _)
Ulp(n, u) == IF n \div u < Mantissa THEN u ELSE Ulp(n, 2 * u)

\* The f32 nearest to q + rem / den (0 <= rem < den), ties to the even one
RoundF32(q, rem, den, u) ==
    LET m == (q \div u) * u
        low == q - m
        even == (m \div u) % 2 = 0
        up == IF u = 1
              THEN 2 * rem > den \/ (2 * rem = den /\ ~even)
              ELSE \/ low > u \div 2
                   \/ low = u \div 2 /\ (rem > 0 \/ ~even)
    IN  IF up THEN m + u ELSE m

\* The f32 result of an addition or subtraction whose exact result is n
F32(n) == IF n < 0 THEN -RoundF32(-n, 0, 1, Ulp(-n, 1)) ELSE RoundF32(n, 0, 1, Ulp(n, 1))

\* group 2 of the regex, "[0-9]+(\.[0-9]+)?", as parse::<f32>() / 100.0: the
\* f32 nearest to the percentage over 100 (rounded once; of the fraction
\* digits the first two count)
WeightOf(int_digits, frac_digits) ==
    LET k == Min(Len(frac_digits), 2)
        n == DecVal(int_digits) * Pow10(k)
                + (IF k = 0 THEN 0 ELSE DecVal(SubSeq(frac_digits, 1, k)))
        den == Pow10(k + 2)
        q == n * (Quantum \div den) + (n * (Quantum % den)) \div den
        rem == (n * (Quantum % den)) % den
    IN  RoundF32(q, rem, den, Ulp(q, 1))

\* "([a-zA-Z_]+=[a-zA-Z0-9]+,?)+?" matched against cs[i..j-1] exactly
RECURSIVE PropsMatch(_, _, _)
PropsMatch(cs, i, j) ==
    \E e \in (i + 1)..(j - 2) :
        /\ \A k \in i..(e - 1) : cs[k] \in Letters
        /\ cs[e] = "="
        /\ \E v \in (e + 1)..(j - 1) :
              /\ \A k \in (e + 1)..v : cs[k] \in AlNum
              /\ \/ v + 1 = j
                 \/ PropsMatch(cs, v + 1, j)
                 \/ cs[v + 1] = "," /\ (v + 2 = j \/ PropsMatch(cs, v + 2, j))

\* "((\|([^|]*?)){1,4})?$" matched against cs[i..]
TailMatch(cs, i) ==
    \/ i = Len(cs) + 1
    \/ /\ i <= Len(cs)
       /\ cs[i] = "|"
       /\ Cardinality({k \in i..Len(cs) : cs[k] = "|"}) <= 4

\* "(:([0-9]+)|\[(...)\])?" and the tail matched against cs[i..]
SuffixMatch(cs, i) ==
    \/ TailMatch(cs, i)
    \/ /\ i <= Len(cs)
       /\ cs[i] = ":"
       /\ RunEnd(cs, i + 1, Digits) > i + 1
       /\ TailMatch(cs, RunEnd(cs, i + 1, Digits))
    \/ /\ i <= Len(cs)
       /\ cs[i] = "["
       /\ \E j \in (i + 1)..Len(cs) :
             /\ cs[j] = "]"
             /\ PropsMatch(cs, i + 1, j)
             /\ TailMatch(cs, j + 1)

MinecraftPrefix == <<"m", "i", "n", "e", "c", "r", "a", "f", "t", ":">>

HasPrefixAt(cs, i, pre) ==
    /\ i + Len(pre) - 1 <= Len(cs)
    /\ SubSeq(cs, i, i + Len(pre) - 1) = pre

\* "^(([0-9]+(\.[0-9]+)?)%)?" of the regex RE of from_str against a part
\* whose leading digit run ends before d1: whether the group matched, and
\* the ends (exclusive) of its integer and fraction digits
WeightGroup(part, d1) ==
    LET hasFrac == d1 > 1 /\ d1 <= Len(part) /\ part[d1] = "."
                      /\ RunEnd(part, d1 + 1, Digits) > d1 + 1
        d2 == IF hasFrac THEN RunEnd(part, d1 + 1, Digits) ELSE d1
    IN  [has |-> d1 > 1 /\ d2 <= Len(part) /\ part[d2] = "%", d1 |-> d1, d2 |-> d2]

\* "(=)?" of RE after the weight group w: whether it matched, and where
\* group 5 starts
EqGroup(part, w) ==
    LET w0 == IF w.has THEN w.d2 + 1 ELSE 1
        eq == w0 <= Len(part) /\ part[w0] = "="
    IN  [eq |-> eq, b0 |-> IF eq THEN w0 + 1 ELSE w0]

\* "((?:minecraft:)?([a-zA-Z_]+|[0-9]+)" of RE from b0: where the name or
\* number starts and where it ends (exclusive)
BlockGroup(part, b0) ==
    LET pre == HasPrefixAt(part, b0, MinecraftPrefix)
                  /\ b0 + 10 <= Len(part) /\ part[b0 + 10] \in Letters
    IN  IF b0 <= Len(part) /\ part[b0] \in Digits
        THEN [n0 |-> b0, b1 |-> RunEnd(part, b0, Digits)]
        ELSE IF pre THEN [n0 |-> b0 + 10, b1 |-> RunEnd(part, b0 + 10, Letters)]
        ELSE [n0 |-> b0, b1 |-> RunEnd(part, b0, Letters)]

\* The captures of a part given its groups: [matched, weight, eq, block],
\* where block is capture group 5
Captures(part, w, e, b) ==
    [matched |-> b.b1 > b.n0 /\ SuffixMatch(part, b.b1),
     weight |-> IF w.has
                THEN WeightOf(SubSeq(part, 1, w.d1 - 1), SubSeq(part, w.d1 + 1, w.d2 - 1))
                ELSE WeightOf(<<"1", "0", "0">>, <<>>),
     eq |-> e.eq,
     block |-> SubSeq(part, e.b0, b.b1 - 1)]

CapturesFrom(part, w, e) == Captures(part, w, e, BlockGroup(part, e.b0))

CapturesAfter(part, w) == CapturesFrom(part, w, EqGroup(part, w))

\* One comma-separated part against the regex RE of from_str
ParsePart(part) == CapturesAfter(part, WeightGroup(part, RunEnd(part, 1, Digits)))

\* str::trim_start_matches("minecraft:")
RECURSIVE TrimMinecraft(_)
TrimMinecraft(cs) ==
    IF HasPrefixAt(cs, 1, MinecraftPrefix)
    THEN TrimMinecraft(SubSeq(cs, 11, Len(cs)))
    ELSE cs

\* The loop of from_str over the parts: [kind |-> "ok", parts], or
\* [kind |-> "err", reason] (a PatternParseError, displayed), or
\* [kind |-> "panic"] (an unwrap of from_str failed)
RECURSIVE FromStrParts(_, _)

\* The body of the loop for the part `part` with captures m, where name is
\* group 5 without its "minecraft:" prefixes
FromStrPart(todo, done, part, m, name) ==
    IF ~m.matched
    THEN [kind |-> "err", reason |-> "invalid pattern: " \o Join(part)]
    ELSE IF m.eq /\ ~ParsesAsU32(m.block)
    THEN [kind |-> "panic"]
    ELSE IF ~m.eq /\ ~KnownName(name)
    THEN [kind |-> "err", reason |-> "unknown block: " \o Join(part)]
    ELSE FromStrParts(Tail(todo),
           Append(done,
               [weight |-> m.weight,
                block_id |-> IF m.eq THEN BlockFromId(U32Value(m.block))
                             ELSE BlockFromName(name)]))

FromStrCaptured(todo, done, m) ==
    FromStrPart(todo, done, Head(todo), m, Join(TrimMinecraft(m.block)))

FromStrParts(todo, done) ==
    IF todo = <<>> THEN [kind |-> "ok", parts |-> done]
    ELSE FromStrCaptured(todo, done, ParsePart(Head(todo)))

from_str(pattern_str) == FromStrParts(Split(pattern_str, ","), <<>>)

\* WorldEditPattern::matches
matches(pattern, block_id) ==
    \E i \in 1..Len(pattern.parts) : pattern.parts[i].block_id = block_id

\* "weight_sum += part.weight" over the parts, in f32
RECURSIVE SumWeights(_)
SumWeights(parts) ==
    IF parts = <<>> THEN 0
    ELSE F32(SumWeights(SubSeq(parts, 1, Len(parts) - 1)) + parts[Len(parts)].weight)

\* The values rng.gen_range(0.0..weight_sum) is drawn from: 0, and each
\* running sum of the weights with the f32 before it and the f32 after it,
\* as far as they lie in [0, weight_sum).  Empty when weight_sum is 0:
\* gen_range panics.
Draws(pattern) ==
    LET sum == SumWeights(pattern.parts)
        cum(k) == SumWeights(SubSeq(pattern.parts, 1, k))
        near(c) == {c - Ulp(c - 1, 1), c, c + Ulp(c, 1)}
    IN  {r \in {0} \cup UNION {IF cum(k) > 0 THEN near(cum(k)) ELSE {0} :
                                  k \in 1..Len(pattern.parts)} :
            0 <= r /\ r < sum}

\* The selection loop of pick for the draw `random`: "random -= part.weight"
\* in f32
RECURSIVE PickFrom(_, _, _)
PickFrom(parts, k, random) ==
    IF k > Len(parts) THEN AIR
    ELSE IF F32(random - parts[k].weight) <= 0 THEN parts[k].block_id
    ELSE PickFrom(parts, k + 1, F32(random - parts[k].weight))

\* WorldEditPattern::pick for a given draw
pick(pattern, random) == BlockFromId(PickFrom(pattern.parts, 1, random))

\* The block ids pick can return
PickIds(pattern) == {pick(pattern, r) : r \in Draws(pattern)}

----------------------------------------------------------------------------
(* Arguments: ArgumentType, Argument, Argument::parse, get_default.        *)
(* An Option is a sequence of length 0 (None) or 1 (Some).                 *)

None == <<>>
Some(v) == <<v>>

Me == <<"m", "e">>

ParseOk(kind, val) == [kind |-> "ok", arg |-> [kind |-> kind, val |-> val]]
ParseErr(arg_type, reason) ==
    [kind |-> "err",
     text |-> "Error parsing argument of type " \o arg_type \o ": " \o reason]

\* The match on the result of WorldEditPattern::from_str in Argument::parse
PatternArg(arg_type, kind, r) ==
    CASE r.kind = "ok" -> ParseOk(kind, [parts |-> r.parts])
      [] r.kind = "err" -> ParseErr(arg_type, r.reason)
      [] r.kind = "panic" -> r

\* Argument::parse with Some(arg)
ParseSome(pl, arg_type, arg) ==
    CASE arg_type = "Direction" ->
            IF arg = Me THEN ParseOk("Direction", pl.facing)
            ELSE ParseErr(arg_type, "unknown direction")
      [] arg_type = "UnsignedInteger" ->
            IF ParsesAsU32(arg) THEN ParseOk("UnsignedInteger", U32Value(arg))
            ELSE ParseErr(arg_type, "error parsing uint")
      [] arg_type \in {"Pattern", "Mask"} -> PatternArg(arg_type, arg_type, from_str(arg))
      [] arg_type = "String" -> ParseOk("String", arg)

\* Argument::get_default with the count 0 for a missing UnsignedInteger
get_default_ZeroCount(pl, arg_type) ==
    CASE arg_type = "Direction" -> ParseSome(pl, arg_type, Me)
      [] arg_type = "UnsignedInteger" -> ParseOk("UnsignedInteger", 0)
      [] OTHER -> ParseErr(arg_type, "argument can't be inferred")

\* Argument::get_default
get_default(pl, arg_type) ==
    CASE arg_type = "Direction" -> ParseSome(pl, arg_type, Me)
      [] arg_type = "UnsignedInteger" -> ParseOk("UnsignedInteger", 1)
      [] OTHER -> ParseErr(arg_type, "argument can't be inferred")

\* Argument::parse
ArgumentParse(pl, arg_type, arg) ==
    IF arg = None THEN get_default(pl, arg_type) ELSE ParseSome(pl, arg_type, arg[1])

----------------------------------------------------------------------------
(* The command and alias tables: COMMANDS, ALIASES.                        *)

Flag(letter, argument_type) == [letter |-> letter, argument_type |-> argument_type]

Command(arguments, flags, requires_positions, requires_clipboard, execute_fn) ==
    [arguments |-> arguments, flags |-> flags,
     requires_positions |-> requires_positions,
     requires_clipboard |-> requires_clipboard, execute_fn |-> execute_fn]

COMMANDS ==
    [copy    |-> Command(<<>>, <<>>, TRUE, FALSE, "execute_copy"),
     cut     |-> Command(<<>>, <<>>, TRUE, FALSE, "execute_cut"),
     paste   |-> Command(<<>>, <<Flag("a", None)>>, FALSE, TRUE, "execute_paste"),
     undo    |-> Command(<<>>, <<>>, FALSE, FALSE, "execute_undo"),
     stack   |-> Command(<<"UnsignedInteger", "Direction">>, <<Flag("a", None)>>,
                         TRUE, FALSE, "execute_stack"),
     move    |-> Command(<<"UnsignedInteger", "Direction">>,
                         <<Flag("a", None), Flag("s", None)>>,
                         TRUE, FALSE, "execute_move"),
     count   |-> Command(<<"Mask">>, <<>>, TRUE, FALSE, "execute_count"),
     sel     |-> Command(<<>>, <<>>, FALSE, FALSE, "execute_sel"),
     set     |-> Command(<<"Pattern">>, <<>>, TRUE, FALSE, "execute_set"),
     pos1    |-> Command(<<>>, <<>>, FALSE, FALSE, "execute_pos1"),
     pos2    |-> Command(<<>>, <<>>, FALSE, FALSE, "execute_pos2"),
     replace |-> Command(<<"Mask", "Pattern">>, <<>>, TRUE, FALSE, "execute_replace"),
     load    |-> Command(<<"String">>, <<>>, FALSE, FALSE, "execute_load")]

ALIASES ==
    ("1" :> <<"p", "o", "s", "1">>) @@
    ("2" :> <<"p", "o", "s", "2">>) @@
    ("c" :> <<"c", "o", "p", "y">>) @@
    ("x" :> <<"c", "u", "t">>) @@
    ("v" :> <<"p", "a", "s", "t", "e">>) @@
    ("va" :> <<"p", "a", "s", "t", "e", " ", "-", "a">>) @@
    ("s" :> <<"s", "t", "a", "c", "k">>) @@
    ("sa" :> <<"s", "t", "a", "c", "k", " ", "-", "a">>)

\* The head of execute_command: the command the token names and the argument
\* list after the alias is expanded; found is FALSE when it names none
Resolve(command, args) ==
    IF command \in DOMAIN COMMANDS
    THEN [found |-> TRUE, name |-> command, args |-> args]
    ELSE IF command \in DOMAIN ALIASES
    THEN LET split == Split(ALIASES[command], " ")
             alias == Tail(split)
         IN  [found |-> TRUE, name |-> Join(Head(split)),
              args |-> IF Len(alias) > 1 THEN args \o alias ELSE args]
    ELSE [found |-> FALSE, name |-> command, args |-> args]

----------------------------------------------------------------------------
(* Flag extraction: the loops of execute_command over the flag tokens.     *)

FlagDescOf(flag_descs, letter) ==
    {k \in 1..Len(flag_descs) : flag_descs[k].letter = letter}

\* The loop over the letters of one token; i is the token's 0-based index
RECURSIVE ScanLetters(_, _, _, _, _, _)
ScanLetters(flag_descs, tok, k, i, with_argument, acc) ==
    IF k > Len(tok) THEN acc
    ELSE IF with_argument
    THEN [acc EXCEPT !.err = Some("Flag with argument must be last in grouping")]
    ELSE IF FlagDescOf(flag_descs, tok[k]) = {}
    THEN [acc EXCEPT !.err = Some("Unknown flag: " \o tok[k])]
    ELSE LET desc == flag_descs[CHOOSE d \in FlagDescOf(flag_descs, tok[k]) :
                        \A e \in FlagDescOf(flag_descs, tok[k]) : d <= e]
             takes == desc.argument_type # None
         IN  ScanLetters(flag_descs, tok, k + 1, i, takes,
                [acc EXCEPT
                    !.idxs = IF takes THEN @ \o <<i, i + 1>> ELSE Append(@, i),
                    !.flags = Append(@, tok[k])])

\* The loop over the tokens
RECURSIVE ScanFlags(_, _, _, _)
ScanFlags(flag_descs, args, i, acc) ==
    IF i >= Len(args) \/ acc.err # None THEN acc
    ELSE IF StartsWith(args[i + 1], "-")
    THEN ScanFlags(flag_descs, args, i + 1,
                   ScanLetters(flag_descs, args[i + 1], 2, i, FALSE, acc))
    ELSE ScanFlags(flag_descs, args, i + 1, acc)

\* "for idx in arg_removal_idxs.iter().rev() { args.remove(idx) }":
\* Vec::remove panics when the index is not below the length
RECURSIVE RemoveArgs(_, _)
RemoveArgs(args, idxs) ==
    IF idxs = <<>> THEN [panic |-> FALSE, args |-> args]
    ELSE LET idx == idxs[Len(idxs)]
         IN  IF idx >= Len(args) THEN [panic |-> TRUE, args |-> args]
             ELSE RemoveArgs(RemoveAt(args, idx), SubSeq(idxs, 1, Len(idxs) - 1))

\* The loop over the argument descriptions: the parsed arguments, or the
\* first parse error, or a panic
RECURSIVE ParseArgs(_, _, _, _)

\* The match on the result r of Argument::parse in the loop
ArgParsed(pl, arg_descs, args, done, r) ==
    IF r.kind = "ok" THEN ParseArgs(pl, arg_descs, args, Append(done, r.arg)) ELSE r

\* ParseArgs leaving out the last argument description
ParseArgs_OneTooFew(pl, arg_descs, args, done) ==
    IF Len(done) >= Len(arg_descs) - 1 THEN [kind |-> "ok", arguments |-> done]
    ELSE ArgParsed(pl, arg_descs, args, done,
            ArgumentParse(pl, arg_descs[Len(done) + 1],
                IF Len(done) < Len(args) THEN Some(args[Len(done) + 1]) ELSE None))

ParseArgs(pl, arg_descs, args, done) ==
    IF Len(done) >= Len(arg_descs) THEN [kind |-> "ok", arguments |-> done]
    ELSE ArgParsed(pl, arg_descs, args, done,
            ArgumentParse(pl, arg_descs[Len(done) + 1],
                IF Len(done) < Len(args) THEN Some(args[Len(done) + 1]) ELSE None))

----------------------------------------------------------------------------
(* Schematics: WorldEditClipboard::load_from_schematic.                    *)
(* An NBT value is [tag, v].  A compound is a function from keys to NBT    *)
(* values: the blob and Metadata are keyed by strings, the Palette by      *)
(* character sequences (its keys are matched against a regex).  The        *)
(* Shorts and Ints of the files of the model are not negative.             *)

Nbt(tag, v) == [tag |-> tag, v |-> v]

LowerLetters ==
    {"a", "b", "c", "d", "e", "f", "g", "h", "i", "j", "k", "l", "m", "n", "o", "p",
     "q", "r", "s", "t", "u", "v", "w", "x", "y", "z", "_"}

\* RE.captures(k) of load_from_schematic, an unanchored search for
\* "minecraft:([a-z_]+)(?:\[([a-z=,0-9]+)\])?": [matched, name, props]
\* with props = None when group 2 does not participate
PaletteKeyMatch(k) ==
    LET starts == {i \in 1..Len(k) :
                     /\ HasPrefixAt(k, i, MinecraftPrefix)
                     /\ i + 10 <= Len(k)
                     /\ k[i + 10] \in LowerLetters}
    IN  IF starts = {} THEN [matched |-> FALSE, name |-> <<>>, props |-> None]
        ELSE LET i == CHOOSE a \in starts : \A b \in starts : a <= b
                 e == RunEnd(k, i + 10, LowerLetters)
                 pe == RunEnd(k, e + 1, (LowerLetters \ {"_"}) \cup Digits \cup {"=", ","})
                 hasProps == /\ e <= Len(k) /\ k[e] = "["
                             /\ pe > e + 1
                             /\ pe <= Len(k) /\ k[pe] = "]"
             IN  [matched |-> TRUE,
                  name |-> SubSeq(k, i + 10, e - 1),
                  props |-> IF hasProps THEN Some(SubSeq(k, e + 1, pe - 1)) ELSE None]

\* One pass of the loop over the palette: "ok" with the registry id, "none"
\* (the function returns None) or "panic"
PaletteEntry(k, v) ==
    IF v.tag # "Int" THEN [kind |-> "none"]
    ELSE LET c == PaletteKeyMatch(k)
             name == Join(c.name)
             pieces == IF c.props = None THEN 0
                       ELSE 1 + Cardinality({j \in 1..Len(c.props[1]) :
                                                c.props[1][j] \in {",", "="}})
         IN  IF ~c.matched THEN [kind |-> "none"]
             ELSE IF pieces % 2 = 1
             THEN [kind |-> "panic", fault |-> "index out of bounds"]
             ELSE [kind |-> "ok", id |-> v.v,
                   block |-> IF KnownName(name) THEN BlockFromName(name) ELSE AIR]

\* x & 127, x & 128 = 128 and the low bits of a byte
Low7(b) == b % 128
Continues(b) == b >= 128

RECURSIVE BitOr(_, _)
BitOr(a, b) ==
    IF a = 0 THEN b
    ELSE IF b = 0 THEN a
    ELSE (IF a % 2 = 1 \/ b % 2 = 1 THEN 1 ELSE 0) + 2 * BitOr(a \div 2, b \div 2)

Pow128(k) == CASE k = 0 -> 1 [] k = 1 -> 128 [] k = 2 -> 16384 [] k = 3 -> 2097152

\* "blockstate_id |= ((b & 127) as u32) << (varint_len * 7)" on the u32 kept
\* as [hi, lo]: bits 28..31 and bits 0..27.  For varint_len = 5 the shift
\* amount is 35: a build with overflow checks panics, one without shifts by 3.
OrGroup(id, b, varint_len) ==
    CASE varint_len <= 3 -> [id EXCEPT !.lo = BitOr(@, Low7(b) * Pow128(varint_len))]
      [] varint_len = 4 -> [id EXCEPT !.hi = BitOr(@, Low7(b) % 16)]
      [] varint_len = 5 -> [id EXCEPT !.lo = BitOr(@, Low7(b) * 8)]

\* The loop "for varint_len in 0..=5" from byte i (0-based): the set of
\* [fault, id, i] it can end in
RECURSIVE ReadVarint(_, _, _, _)
ReadVarint(bytes, i, varint_len, id) ==
    IF varint_len > 5 THEN {[fault |-> None, id |-> id, i |-> i]}
    ELSE IF i >= Len(bytes)
    THEN {[fault |-> Some("index out of bounds"), id |-> id, i |-> i]}
    ELSE LET b == bytes[i + 1]
             n == OrGroup(id, b, varint_len)
             cont == IF ~Continues(b) THEN {[fault |-> None, id |-> n, i |-> i + 1]}
                     ELSE ReadVarint(bytes, i + 1, varint_len + 1, n)
         IN  IF varint_len = 5
             THEN {[fault |-> Some("attempt to shift left with overflow"),
                    id |-> id, i |-> i]} \cup cont
             ELSE cont

\* The loops over the cells of BlockData: the set of [fault, data] they can
\* end in.  d = [fault, data, i] is the state after some cells.
RECURSIVE DecodeCells(_, _, _, _, _)
DecodeCells(D, bytes, palette, n, k) ==
    IF k >= n THEN D
    ELSE DecodeCells(
            UNION {IF d.fault # None THEN {d}
                   ELSE {IF r.fault # None THEN [d EXCEPT !.fault = r.fault]
                         ELSE IF r.id.hi # 0 \/ r.id.lo \notin DOMAIN palette
                         THEN [d EXCEPT !.fault =
                                  Some("called Option::unwrap() on a None value")]
                         ELSE [d EXCEPT !.data[k + 1] = palette[r.id.lo], !.i = r.i] :
                         r \in ReadVarint(bytes, d.i, 0, [hi |-> 0, lo |-> 0])} : d \in D},
            bytes, palette, n, k + 1)

\* BlockEntity::from_nbt(val)
BlockEntityFromNbt(val) ==
    IF "Id" \in DOMAIN val /\ val["Id"].tag = "String" /\ val["Id"].v \in EntVals
    THEN Some(val["Id"].v)
    ELSE None

\* The loop over the BlockEntities list: [kind |-> "ok", ents], "none" or "panic"
RECURSIVE ParseBlockEntities(_, _)
ParseBlockEntities(list, done) ==
    IF list = <<>> THEN [kind |-> "ok", ents |-> done]
    ELSE LET block_entity == Head(list)
             val == block_entity.v
         IN  IF block_entity.tag # "Compound" THEN [kind |-> "none"]
             ELSE IF "Pos" \notin DOMAIN val
             THEN [kind |-> "panic", fault |-> "no entry found for key"]
             ELSE IF val["Pos"].tag # "IntArray" THEN [kind |-> "none"]
             ELSE IF Len(val["Pos"].v) < 3
             THEN [kind |-> "panic", fault |-> "index out of bounds"]
             ELSE LET pos == BlockPos(val["Pos"].v[1], val["Pos"].v[2], val["Pos"].v[3])
                      parsed == BlockEntityFromNbt(val)
                  IN  ParseBlockEntities(Tail(list),
                        IF parsed = None THEN done
                        ELSE [q \in DOMAIN done \cup {pos} |->
                                IF q = pos THEN parsed[1] ELSE done[q]])

NoneResult == [kind |-> "none"]
PanicResult(fault) == [kind |-> "panic", fault |-> fault]
MissingKey == "no entry found for key"

\* The files under ./schems/: the name of a file to its content, a gzipped
\* NBT document (gzip_nbt, with its blob) or something else
EmptyMap == [x \in {} |-> 0]

StonePalette ==
    (<<"m", "i", "n", "e", "c", "r", "a", "f", "t", ":", "a", "i", "r">> :> Nbt("Int", 0)) @@
    (<<"m", "i", "n", "e", "c", "r", "a", "f", "t", ":", "s", "t", "o", "n", "e">>
        :> Nbt("Int", 1)) @@
    (<<"m", "i", "n", "e", "c", "r", "a", "f", "t", ":", "b", "a", "r", "r", "e", "l",
       "[", "o", "p", "e", "n", "=", "f", "a", "l", "s", "e", "]">> :> Nbt("Int", 2))

GoodBlob ==
    [Width |-> Nbt("Short", 2), Height |-> Nbt("Short", 1), Length |-> Nbt("Short", 1),
     Palette |-> Nbt("Compound", StonePalette),
     Metadata |-> Nbt("Compound",
        [WEOffsetX |-> Nbt("Int", 0), WEOffsetY |-> Nbt("Int", 0),
         WEOffsetZ |-> Nbt("Int", 0)]),
     BlockData |-> Nbt("ByteArray", <<1, 2>>),
     BlockEntities |-> Nbt("List",
        <<Nbt("Compound", [Pos |-> Nbt("IntArray", <<1, 0, 0>>),
                           Id |-> Nbt("String", "e1")])>>)]

SchemFiles ==
    [good  |-> [gzip_nbt |-> TRUE, blob |-> GoodBlob],
     junk  |-> [gzip_nbt |-> FALSE, blob |-> EmptyMap],
     short |-> [gzip_nbt |-> TRUE,
                blob |-> [GoodBlob EXCEPT !.BlockData = Nbt("ByteArray", <<1>>)]],
     far   |-> [gzip_nbt |-> TRUE,
                blob |-> [GoodBlob EXCEPT !.BlockEntities = Nbt("List",
                    <<Nbt("Compound", [Pos |-> Nbt("IntArray", <<5, 0, 0>>),
                                       Id |-> Nbt("String", "e1")])>>)]],
     long  |-> [gzip_nbt |-> TRUE,
                blob |-> [GoodBlob EXCEPT !.BlockData =
                            Nbt("ByteArray", <<129, 128, 128, 128, 128, 0, 2>>)]]]

\* The field `key` of compound c as the variant `tag` (nbt_unwrap_val! on an
\* indexed value): "panic" when the key is missing, "none" on another variant
Field(c, key, tag) ==
    IF key \notin DOMAIN c THEN PanicResult(MissingKey)
    ELSE IF c[key].tag # tag THEN NoneResult
    ELSE [kind |-> "ok", v |-> c[key].v]

\* The first of the results that is not "ok", or the last one
RECURSIVE FirstFailure(_)
FirstFailure(rs) ==
    IF Len(rs) = 1 \/ Head(rs).kind # "ok" THEN Head(rs) ELSE FirstFailure(Tail(rs))

\* load_from_schematic: the set of results the call can have, each
\* [kind |-> "some", cb], [kind |-> "none"] or [kind |-> "panic", fault]
load_from_schematic(file_name) ==
    IF file_name \notin DOMAIN SchemFiles THEN {NoneResult}
    ELSE IF ~SchemFiles[file_name].gzip_nbt THEN {NoneResult}
    ELSE
    LET nbt == SchemFiles[file_name].blob
        head == FirstFailure(<<Field(nbt, "Width", "Short"), Field(nbt, "Length", "Short"),
                               Field(nbt, "Height", "Short"),
                               Field(nbt, "Palette", "Compound"),
                               Field(nbt, "Metadata", "Compound")>>)
    IN  IF head.kind # "ok" THEN {head}
        ELSE
        LET size_x == nbt.Width.v
            size_z == nbt.Length.v
            size_y == nbt.Height.v
            nbt_palette == nbt.Palette.v
            metadata == nbt.Metadata.v
            offs == FirstFailure(<<Field(metadata, "WEOffsetX", "Int"),
                                   Field(metadata, "WEOffsetY", "Int"),
                                   Field(metadata, "WEOffsetZ", "Int")>>)
            entry(k) == PaletteEntry(k, nbt_palette[k])
            bad == {entry(k) : k \in {j \in DOMAIN nbt_palette : entry(j).kind # "ok"}}
        IN  IF offs.kind # "ok" THEN {offs}
            ELSE IF bad # {} THEN bad
            ELSE
            LET palette == [id \in {entry(k).id : k \in DOMAIN nbt_palette} |->
                              entry(CHOOSE k \in DOMAIN nbt_palette : entry(k).id = id).block]
                blockdata == Field(nbt, "BlockData", "ByteArray")
                n == size_x * size_y * size_z
            IN  IF blockdata.kind # "ok" THEN {blockdata}
                ELSE
                UNION {IF d.fault # None THEN {PanicResult(d.fault[1])}
                       ELSE LET list == Field(nbt, "BlockEntities", "List")
                                bes == IF list.kind = "ok"
                                       THEN ParseBlockEntities(list.v, EmptyMap)
                                       ELSE list
                            IN  IF bes.kind # "ok" THEN {bes}
                                ELSE {[kind |-> "some",
                                       cb |-> [offset_x |-> -metadata.WEOffsetX.v,
                                               offset_y |-> -metadata.WEOffsetY.v,
                                               offset_z |-> -metadata.WEOffsetZ.v,
                                               size_x |-> size_x, size_y |-> size_y,
                                               size_z |-> size_z,
                                               data |-> d.data,
                                               block_entities |-> bes.ents]]} :
                       d \in DecodeCells({[fault |-> None, i |-> 0,
                                           data |-> [j \in 1..n |-> AIR]]},
                                         blockdata.v, palette, n, 0)}

----------------------------------------------------------------------------
(* WorldEditOperation: the chunk records of an operation.                  *)

\* A Rust panic with the given message: the dispatch unwinds
Panic(s, message) == [s EXCEPT !.ret = "panic", !.fault = message]

\* The argument at index i unwraps as `kind` (unwrap_uint, unwrap_direction,
\* unwrap_pattern, unwrap_mask, unwrap_string); otherwise the unwrap, or the
\* index into ctx.arguments, panics
Unwraps(ctx, i, kind) ==
    i < Len(ctx.arguments) /\ ctx.arguments[i + 1].kind = kind

Arg(ctx, i) == ctx.arguments[i + 1].val

\* The panic of "ctx.arguments[i].unwrap_...()": of the index when the list
\* is too short, else of the unwrap, with its message
IndexFault(len, i) ==
    "index out of bounds: the len is " \o ToString(len) \o " but the index is "
        \o ToString(i)

UnwrapPanic(s, ctx, i, message) ==
    Panic(s, IF i >= Len(ctx.arguments) THEN IndexFault(Len(ctx.arguments), i)
             ELSE message)

\* ctx.has_flag(c)
has_flag(ctx, c) == \E k \in 1..Len(ctx.flags) : ctx.flags[k] = c

\* WorldEditOperation::new
WorldEditOperationNew(first_pos, second_pos) ==
    LET start_pos == PosMin(first_pos, second_pos)
        end_pos == PosMax(first_pos, second_pos)
        cx0 == Shr4(start_pos.x)
        cz0 == Shr4(start_pos.z)
        nz == Shr4(end_pos.z) - cz0 + 1
        n == (Shr4(end_pos.x) - cx0 + 1) * nz
    IN  [records |-> [i \in 1..n |->
                        [chunk_x |-> cx0 + ((i - 1) \div nz),
                         chunk_z |-> cz0 + ((i - 1) % nz),
                         block_count |-> 0]],
         start_pos |-> start_pos,
         end_pos |-> end_pos]

\* update_block counting a position of no record for the first record
update_block_CountsMisses(op, block_pos) ==
    LET hit == {k \in 1..Len(op.records) :
                  /\ op.records[k].chunk_x = Shr4(block_pos.x)
                  /\ op.records[k].chunk_z = Shr4(block_pos.z)}
    IN  IF hit = {} THEN [op EXCEPT !.records[1].block_count = @ + 1]
        ELSE LET k == CHOOSE k \in hit : \A j \in hit : k <= j
             IN  [op EXCEPT !.records[k].block_count = @ + 1]

\* WorldEditOperation::update_block
update_block(op, block_pos) ==
    LET hit == {k \in 1..Len(op.records) :
                  /\ op.records[k].chunk_x = Shr4(block_pos.x)
                  /\ op.records[k].chunk_z = Shr4(block_pos.z)}
    IN  IF hit = {} THEN op
        ELSE LET k == CHOOSE k \in hit : \A j \in hit : k <= j
             IN  [op EXCEPT !.records[k].block_count = @ + 1]

\* WorldEditOperation::blocks_updated
RECURSIVE SumCounts(_)
SumCounts(records) ==
    IF records = <<>> THEN 0 ELSE Head(records).block_count + SumCounts(Tail(records))

blocks_updated(op) == SumCounts(op.records)

\* worldedit_send_operation sending only the chunks with a changed cell
worldedit_send_operation_ChangedOnly(s, plot_x, op) ==
    LET F[i \in 0..Len(op.records)] ==
            IF i = 0 THEN s
            ELSE IF op.records[i].block_count = 0 THEN F[i - 1]
            ELSE SendChunk(F[i - 1], plot_x, op.records[i].chunk_x, op.records[i].chunk_z)
    IN  F[Len(op.records)]

\* worldedit_send_operation
worldedit_send_operation(s, plot_x, op) ==
    LET F[i \in 0..Len(op.records)] ==
            IF i = 0 THEN s
            ELSE SendChunk(F[i - 1], plot_x, op.records[i].chunk_x, op.records[i].chunk_z)
    IN  F[Len(op.records)]

\* worldedit_start_operation
worldedit_start_operation(s, player) ==
    WorldEditOperationNew(s.players[player].first_position[1],
                          s.players[player].second_position[1])

\* The position the loops "for x { for y { for z" of an operation reach at
\* their i-th pass (i from 0)
NthXYZ(op, i) ==
    LET size_y == op.end_pos.y - op.start_pos.y + 1
        size_z == op.end_pos.z - op.start_pos.z + 1
    IN  BlockPos(op.start_pos.x + (i \div (size_y * size_z)),
                 op.start_pos.y + ((i \div size_z) % size_y),
                 op.start_pos.z + (i % size_z))

OpCells(op) ==
    (op.end_pos.x - op.start_pos.x + 1) * (op.end_pos.y - op.start_pos.y + 1)
        * (op.end_pos.z - op.start_pos.z + 1)

----------------------------------------------------------------------------
(* The bound operations.  Each maps the state at its call to the set of    *)
(* states it can return in (pick draws at random).  s.op is the operation  *)
(* in progress.                                                            *)

\* One pass of the loop body of execute_set / execute_replace with the block
\* id that pick returned
WriteCell(s, plot_x, block_pos, block_id) ==
    LET t == SetBlockRaw(s, plot_x, block_pos, block_id)
    IN  IF SetBlockChanges(s, plot_x, block_pos, block_id)
        THEN [t EXCEPT !.op = update_block(@, block_pos)]
        ELSE t

\* FinishOperation telling the player before the chunks are sent
FinishOperation_MessageFirst(s, ctx) ==
    IF s.ret = "panic" THEN s
    ELSE worldedit_send_operation(
            SendMessage(s, ctx.player_idx,
                "Operation completed: " \o ToString(blocks_updated(s.op))
                    \o " block(s) affected"),
            ctx.plot, s.op)

\* The tail of execute_set / execute_replace
FinishOperation(s, ctx) ==
    IF s.ret = "panic" THEN s
    ELSE SendMessage(worldedit_send_operation(s, ctx.plot, s.op), ctx.player_idx,
            "Operation completed: " \o ToString(blocks_updated(s.op))
                \o " block(s) affected")

RECURSIVE SetLoop(_, _, _, _)
SetLoop(S, ctx, pattern, i) ==
    IF S = {} THEN {}
    ELSE LET op == (CHOOSE s \in S : TRUE).op
         IN  IF i >= OpCells(op) THEN S
             ELSE SetLoop(
                    UNION {IF s.ret = "panic" THEN {s}
                           ELSE IF Draws(pattern) = {} THEN {Panic(s, "cannot sample empty range")}
                           ELSE {WriteCell(s, ctx.plot, NthXYZ(op, i), pick(pattern, r)) :
                                    r \in Draws(pattern)} : s \in S},
                    ctx, pattern, i + 1)

execute_set(s, ctx) ==
    IF ~Unwraps(ctx, 0, "Pattern") THEN {UnwrapPanic(s, ctx, 0, "Argument was not a Pattern")}
    ELSE LET pattern == Arg(ctx, 0)
             pl == s.players[ctx.player_idx]
             s1 == [s EXCEPT !.op = worldedit_start_operation(s, ctx.player_idx)]
             s2 == capture_undo(s1, ctx.plot, ctx.player_idx,
                                pl.first_position[1], pl.second_position[1])
         IN  {FinishOperation(f, ctx) : f \in SetLoop({s2}, ctx, pattern, 0)}

RECURSIVE ReplaceLoop(_, _, _, _, _)
ReplaceLoop(S, ctx, filter, pattern, i) ==
    IF S = {} THEN {}
    ELSE LET op == (CHOOSE s \in S : TRUE).op
             pos == NthXYZ(op, i)
         IN  IF i >= OpCells(op) THEN S
             ELSE ReplaceLoop(
                    UNION {IF s.ret = "panic" THEN {s}
                           ELSE IF ~matches(filter, GetBlock(s, ctx.plot, pos)) THEN {s}
                           ELSE IF Draws(pattern) = {} THEN {Panic(s, "cannot sample empty range")}
                           ELSE {WriteCell(s, ctx.plot, pos, pick(pattern, r)) :
                                    r \in Draws(pattern)} : s \in S},
                    ctx, filter, pattern, i + 1)

execute_replace(s, ctx) ==
    IF ~Unwraps(ctx, 0, "Mask") THEN {UnwrapPanic(s, ctx, 0, "Argument was not a Mask")}
    ELSE IF ~Unwraps(ctx, 1, "Pattern") THEN {UnwrapPanic(s, ctx, 1, "Argument was not a Pattern")}
    ELSE LET filter == Arg(ctx, 0)
             pattern == Arg(ctx, 1)
             pl == s.players[ctx.player_idx]
             s1 == [s EXCEPT !.op = worldedit_start_operation(s, ctx.player_idx)]
             s2 == capture_undo(s1, ctx.plot, ctx.player_idx,
                                pl.first_position[1], pl.second_position[1])
         IN  {FinishOperation(f, ctx) : f \in ReplaceLoop({s2}, ctx, filter, pattern, 0)}

execute_count(s, ctx) ==
    IF ~Unwraps(ctx, 0, "Pattern") THEN {UnwrapPanic(s, ctx, 0, "Argument was not a Pattern")}
    ELSE LET filter == Arg(ctx, 0)
             op == worldedit_start_operation(s, ctx.player_idx)
             blocks_counted ==
                Cardinality({i \in 0..(OpCells(op) - 1) :
                                matches(filter, GetBlock(s, ctx.plot, NthXYZ(op, i)))})
         IN  {SendMessage(s, ctx.player_idx,
                          "Counted " \o ToString(blocks_counted) \o " block(s)")}

\* BlockPos::new(player.x.floor() as i32, player.y.floor() as i32, ...)
PlayerFloorPos(pl) == BlockPos(Floor2(pl.x), Floor2(pl.y), Floor2(pl.z))

SetClipboard(s, player, cb) ==
    Log([s EXCEPT !.players[player].worldedit_clipboard = Some(cb)],
        "clipboard", player, NoPos, "set")

execute_copy(s, ctx) ==
    LET pl == s.players[ctx.player_idx]
        clipboard == create_clipboard(s, ctx.plot, PlayerFloorPos(pl),
                                      pl.first_position[1], pl.second_position[1])
    IN  {SendMessage(SetClipboard(s, ctx.player_idx, clipboard), ctx.player_idx,
                     "Your selection was copied.")}

\* execute_cut taking the snapshot after the selection was cleared
execute_cut_ClearsFirst(s, ctx) ==
    LET pl == s.players[ctx.player_idx]
        first_pos == pl.first_position[1]
        second_pos == pl.second_position[1]
        s1 == clear_area(s, ctx.plot, first_pos, second_pos)
        clipboard == create_clipboard(s1, ctx.plot, PlayerFloorPos(pl), first_pos, second_pos)
        s2 == SetClipboard(s1, ctx.player_idx, clipboard)
    IN  {SendMessage(s2, ctx.player_idx, "Your selection was cut.")}

execute_cut(s, ctx) ==
    LET pl == s.players[ctx.player_idx]
        first_pos == pl.first_position[1]
        second_pos == pl.second_position[1]
        clipboard == create_clipboard(s, ctx.plot, PlayerFloorPos(pl), first_pos, second_pos)
        s1 == SetClipboard(s, ctx.player_idx, clipboard)
        s2 == clear_area(s1, ctx.plot, first_pos, second_pos)
    IN  {SendMessage(s2, ctx.player_idx, "Your selection was cut.")}

\* player.worldedit_set_first_position / worldedit_set_second_position
SetFirstPosition(s, player, pos) ==
    SendMessage([s EXCEPT !.players[player].first_position = Some(pos)],
                player, "First position set")
SetSecondPosition(s, player, pos) ==
    SendMessage([s EXCEPT !.players[player].second_position = Some(pos)],
                player, "Second position set")

\* execute_move clearing the selection after the paste
execute_move_ClearsAfter(s, ctx) ==
    IF ~Unwraps(ctx, 0, "UnsignedInteger")
    THEN {UnwrapPanic(s, ctx, 0, "Argument was not an UnsignedInteger")}
    ELSE IF ~Unwraps(ctx, 1, "Direction")
    THEN {UnwrapPanic(s, ctx, 1, "Argument was not an Direction")}
    ELSE LET move_amt == Arg(ctx, 0)
             direction == Arg(ctx, 1)
             pl == s.players[ctx.player_idx]
             first_pos == pl.first_position[1]
             second_pos == pl.second_position[1]
             zero_pos == BlockPos(0, 0, 0)
             clipboard == create_clipboard(s, ctx.plot, zero_pos, first_pos, second_pos)
             s1 == paste_clipboard(s, ctx.plot, clipboard,
                                   OffsetPos(direction, zero_pos, move_amt),
                                   has_flag(ctx, "a"))
             s2 == clear_area(s1, ctx.plot, first_pos, second_pos)
             s3 == IF has_flag(ctx, "s")
                   THEN SetSecondPosition(
                            SetFirstPosition(s2, ctx.player_idx,
                                             OffsetPos(direction, first_pos, move_amt)),
                            ctx.player_idx, OffsetPos(direction, second_pos, move_amt))
                   ELSE s2
         IN  {SendMessage(s3, ctx.player_idx, "Your selection was moved.")}

execute_move(s, ctx) ==
    IF ~Unwraps(ctx, 0, "UnsignedInteger")
    THEN {UnwrapPanic(s, ctx, 0, "Argument was not an UnsignedInteger")}
    ELSE IF ~Unwraps(ctx, 1, "Direction")
    THEN {UnwrapPanic(s, ctx, 1, "Argument was not an Direction")}
    ELSE LET move_amt == Arg(ctx, 0)
             direction == Arg(ctx, 1)
             pl == s.players[ctx.player_idx]
             first_pos == pl.first_position[1]
             second_pos == pl.second_position[1]
             zero_pos == BlockPos(0, 0, 0)
             clipboard == create_clipboard(s, ctx.plot, zero_pos, first_pos, second_pos)
             s1 == clear_area(s, ctx.plot, first_pos, second_pos)
             s2 == paste_clipboard(s1, ctx.plot, clipboard,
                                   OffsetPos(direction, zero_pos, move_amt),
                                   has_flag(ctx, "a"))
             s3 == IF has_flag(ctx, "s")
                   THEN SetSecondPosition(
                            SetFirstPosition(s2, ctx.player_idx,
                                             OffsetPos(direction, first_pos, move_amt)),
                            ctx.player_idx, OffsetPos(direction, second_pos, move_amt))
                   ELSE s2
         IN  {SendMessage(s3, ctx.player_idx, "Your selection was moved.")}

\* execute_paste capturing the undo entry after the paste
execute_paste_CapturesAfter(s, ctx) ==
    LET pl == s.players[ctx.player_idx]
    IN  IF pl.worldedit_clipboard # None
        THEN LET cb == pl.worldedit_clipboard[1]
                 pos == PlayerFloorPos(pl)
                 offset == BlockPos(pos.x - cb.offset_x, pos.y - cb.offset_y,
                                    pos.z - cb.offset_z)
                 s1 == paste_clipboard(s, ctx.plot, cb, pos, has_flag(ctx, "a"))
                 s2 == capture_undo(s1, ctx.plot, ctx.player_idx, offset,
                                    BlockPos(offset.x + cb.size_x, offset.y + cb.size_y,
                                             offset.z + cb.size_z))
             IN  {SendMessage(s2, ctx.player_idx, "Your clipboard was pasted.")}
        ELSE {SendSystemMessage(s, ctx.player_idx, "Your clipboard is empty!")}

execute_paste(s, ctx) ==
    LET pl == s.players[ctx.player_idx]
    IN  IF pl.worldedit_clipboard # None
        THEN LET cb == pl.worldedit_clipboard[1]
                 pos == PlayerFloorPos(pl)
                 offset == BlockPos(pos.x - cb.offset_x, pos.y - cb.offset_y,
                                    pos.z - cb.offset_z)
                 s1 == capture_undo(s, ctx.plot, ctx.player_idx, offset,
                                    BlockPos(offset.x + cb.size_x, offset.y + cb.size_y,
                                             offset.z + cb.size_z))
                 s2 == paste_clipboard(s1, ctx.plot, cb, pos, has_flag(ctx, "a"))
             IN  {SendMessage(s2, ctx.player_idx, "Your clipboard was pasted.")}
        ELSE {SendSystemMessage(s, ctx.player_idx, "Your clipboard is empty!")}

RECURSIVE StackLoop(_, _, _, _, _, _, _)
StackLoop(s, ctx, clipboard, direction, pos1, stack_offset, i) ==
    IF i < 1 THEN s
    ELSE paste_clipboard(
            StackLoop(s, ctx, clipboard, direction, pos1, stack_offset, i - 1),
            ctx.plot, clipboard, OffsetPos(direction, pos1, i * stack_offset),
            has_flag(ctx, "a"))

\* execute_stack stepping by one cell whatever the size of the selection
execute_stack_UnitOffset(s, ctx) ==
    IF ~Unwraps(ctx, 0, "UnsignedInteger")
    THEN {UnwrapPanic(s, ctx, 0, "Argument was not an UnsignedInteger")}
    ELSE IF ~Unwraps(ctx, 1, "Direction")
    THEN {UnwrapPanic(s, ctx, 1, "Argument was not an Direction")}
    ELSE LET stack_amt == Arg(ctx, 0)
             direction == Arg(ctx, 1)
             pl == s.players[ctx.player_idx]
             pos1 == pl.first_position[1]
             clipboard == create_clipboard(s, ctx.plot, pos1, pos1, pl.second_position[1])
             s1 == StackLoop(s, ctx, clipboard, direction, pos1, 1, stack_amt)
         IN  {SendMessage(s1, ctx.player_idx, "Your clipboard was stacked.")}

execute_stack(s, ctx) ==
    IF ~Unwraps(ctx, 0, "UnsignedInteger")
    THEN {UnwrapPanic(s, ctx, 0, "Argument was not an UnsignedInteger")}
    ELSE IF ~Unwraps(ctx, 1, "Direction")
    THEN {UnwrapPanic(s, ctx, 1, "Argument was not an Direction")}
    ELSE LET stack_amt == Arg(ctx, 0)
             direction == Arg(ctx, 1)
             pl == s.players[ctx.player_idx]
             pos1 == pl.first_position[1]
             clipboard == create_clipboard(s, ctx.plot, pos1, pos1, pl.second_position[1])
             stack_offset ==
                CASE direction \in {"north", "south"} -> clipboard.size_z
                  [] direction \in {"east", "west"} -> clipboard.size_x
                  [] direction \in {"up", "down"} -> clipboard.size_y
             s1 == StackLoop(s, ctx, clipboard, direction, pos1, stack_offset, stack_amt)
         IN  {SendMessage(s1, ctx.player_idx, "Your clipboard was stacked.")}

\* execute_undo with the snapshot pasted before the plot is compared
execute_undo_PastesFirst(s, ctx) ==
    LET pl == s.players[ctx.player_idx]
    IN  IF pl.worldedit_undo = <<>>
        THEN {SendErrorMessage(s, ctx.player_idx, "There is nothing left to undo.")}
        ELSE LET undo == pl.worldedit_undo[Len(pl.worldedit_undo)]
                 s1 == Log([s EXCEPT !.players[ctx.player_idx].worldedit_undo =
                                SubSeq(@, 1, Len(@) - 1)],
                           "undo_pop", ctx.player_idx, undo.pos, "undo")
                 s2 == paste_clipboard(s1, ctx.plot, undo.clipboard, undo.pos, FALSE)
             IN  IF undo.plot_x # ctx.plot \/ undo.plot_z # PlotZ
                 THEN {SendErrorMessage(s2, ctx.player_idx,
                                        "Cannot undo outside of your current plot.")}
                 ELSE {s2}

\* execute_undo with the entry left on the stack when the plot differs
execute_undo_KeepsEntry(s, ctx) ==
    LET pl == s.players[ctx.player_idx]
    IN  IF pl.worldedit_undo = <<>>
        THEN {SendErrorMessage(s, ctx.player_idx, "There is nothing left to undo.")}
        ELSE LET undo == pl.worldedit_undo[Len(pl.worldedit_undo)]
                 s1 == Log([s EXCEPT !.players[ctx.player_idx].worldedit_undo =
                                SubSeq(@, 1, Len(@) - 1)],
                           "undo_pop", ctx.player_idx, undo.pos, "undo")
             IN  IF undo.plot_x # ctx.plot \/ undo.plot_z # PlotZ
                 THEN {SendErrorMessage(s, ctx.player_idx,
                                        "Cannot undo outside of your current plot.")}
                 ELSE {paste_clipboard(s1, ctx.plot, undo.clipboard, undo.pos, FALSE)}

\* execute_undo dropping the whole stack instead of its top entry
execute_undo_DropsAll(s, ctx) ==
    LET pl == s.players[ctx.player_idx]
    IN  IF pl.worldedit_undo = <<>>
        THEN {SendErrorMessage(s, ctx.player_idx, "There is nothing left to undo.")}
        ELSE LET undo == pl.worldedit_undo[Len(pl.worldedit_undo)]
                 s1 == Log([s EXCEPT !.players[ctx.player_idx].worldedit_undo = <<>>],
                           "undo_pop", ctx.player_idx, undo.pos, "undo")
             IN  IF undo.plot_x # ctx.plot \/ undo.plot_z # PlotZ
                 THEN {SendErrorMessage(s1, ctx.player_idx,
                                        "Cannot undo outside of your current plot.")}
                 ELSE {paste_clipboard(s1, ctx.plot, undo.clipboard, undo.pos, FALSE)}

execute_undo(s, ctx) ==
    LET pl == s.players[ctx.player_idx]
    IN  IF pl.worldedit_undo = <<>>
        THEN {SendErrorMessage(s, ctx.player_idx, "There is nothing left to undo.")}
        ELSE LET undo == pl.worldedit_undo[Len(pl.worldedit_undo)]
                 s1 == Log([s EXCEPT !.players[ctx.player_idx].worldedit_undo =
                                SubSeq(@, 1, Len(@) - 1)],
                           "undo_pop", ctx.player_idx, undo.pos, "undo")
             IN  IF undo.plot_x # ctx.plot \/ undo.plot_z # PlotZ
                 THEN {SendErrorMessage(s1, ctx.player_idx,
                                        "Cannot undo outside of your current plot.")}
                 ELSE {paste_clipboard(s1, ctx.plot, undo.clipboard, undo.pos, FALSE)}

\* execute_sel unsetting the first corner only
execute_sel_KeepsSecond(s, ctx) ==
    LET s1 == [s EXCEPT !.players[ctx.player_idx].first_position = None]
    IN  {Log(SendMessage(s1, ctx.player_idx, "Selection cleared."),
             "cui", ctx.player_idx, NoPos, "s|cuboid")}

execute_sel(s, ctx) ==
    LET s1 == [s EXCEPT !.players[ctx.player_idx].first_position = None,
                        !.players[ctx.player_idx].second_position = None]
    IN  {Log(SendMessage(s1, ctx.player_idx, "Selection cleared."),
             "cui", ctx.player_idx, NoPos, "s|cuboid")}

\* BlockPos of "player.x as i32, player.y as i32, player.z as i32"
PlayerTruncPos(pl) == BlockPos(Trunc2(pl.x), Trunc2(pl.y), Trunc2(pl.z))

execute_pos1(s, ctx) ==
    {SetFirstPosition(s, ctx.player_idx, PlayerTruncPos(s.players[ctx.player_idx]))}

execute_pos2(s, ctx) ==
    {SetSecondPosition(s, ctx.player_idx, PlayerTruncPos(s.players[ctx.player_idx]))}

execute_load(s, ctx) ==
    IF ~Unwraps(ctx, 0, "String") THEN {UnwrapPanic(s, ctx, 0, "Argument was not a String")}
    ELSE LET file_name == Join(Arg(ctx, 0))
         IN  {CASE r.kind = "some" ->
                    SendMessage(SetClipboard(s, ctx.player_idx, r.cb), ctx.player_idx,
                                "The schematic was loaded to your clipboard.")
                [] r.kind = "none" ->
                    SendErrorMessage(s, ctx.player_idx,
                                     "There was an error loading the schematic.")
                [] r.kind = "panic" -> Panic(s, r.fault) :
              r \in load_from_schematic(file_name)}

----------------------------------------------------------------------------
(* execute_command                                                         *)

\* (command.execute_fn)(ctx)
Execute(s, ctx, execute_fn) ==
    CASE execute_fn = "execute_copy" -> execute_copy(s, ctx)
      [] execute_fn = "execute_cut" -> execute_cut(s, ctx)
      [] execute_fn = "execute_paste" -> execute_paste(s, ctx)
      [] execute_fn = "execute_undo" -> execute_undo(s, ctx)
      [] execute_fn = "execute_stack" -> execute_stack(s, ctx)
      [] execute_fn = "execute_move" -> execute_move(s, ctx)
      [] execute_fn = "execute_count" -> execute_count(s, ctx)
      [] execute_fn = "execute_sel" -> execute_sel(s, ctx)
      [] execute_fn = "execute_set" -> execute_set(s, ctx)
      [] execute_fn = "execute_pos1" -> execute_pos1(s, ctx)
      [] execute_fn = "execute_pos2" -> execute_pos2(s, ctx)
      [] execute_fn = "execute_replace" -> execute_replace(s, ctx)
      [] execute_fn = "execute_load" -> execute_load(s, ctx)

\* "return true" after a message to the player
Reply(s, player, text) == [SendErrorMessage(s, player, text) EXCEPT !.ret = "handled"]

\* "return true" after a system message to the player
ReplySystem(s, player, text) == [SendSystemMessage(s, player, text) EXCEPT !.ret = "handled"]

\* The positions check without the bounds check of the second corner
PositionsCheck_FirstCornerOnly(pl, plot_x) ==
    IF pl.first_position = None \/ pl.second_position = None
    THEN Some("Make a region selection first.")
    ELSE IF ~InPlotBounds(plot_x, PlotZ, pl.first_position[1].x, pl.first_position[1].z)
    THEN Some("First position is outside plot bounds!")
    ELSE None

\* The positions check of execute_command: the message it sends, or None
PositionsCheck(pl, plot_x) ==
    IF pl.first_position = None \/ pl.second_position = None
    THEN Some("Make a region selection first.")
    ELSE IF ~InPlotBounds(plot_x, PlotZ, pl.first_position[1].x, pl.first_position[1].z)
    THEN Some("First position is outside plot bounds!")
    ELSE IF ~InPlotBounds(plot_x, PlotZ, pl.second_position[1].x, pl.second_position[1].z)
    THEN Some("Second position is outside plot bounds!")
    ELSE None

\* The end of execute_command: the arguments were parsed (or not), and the
\* command's function runs
ArgumentsParsed(s, player_idx, cmd, parsed) ==
    IF parsed.kind = "err" THEN {Reply(s, player_idx, parsed.text)}
    ELSE IF parsed.kind = "panic"
    THEN {Panic(s, "called Result::unwrap() on an Err value")}
    ELSE {IF f.ret = "panic" THEN f ELSE [f EXCEPT !.ret = "handled"] :
            f \in Execute([s EXCEPT !.invoked = Some(cmd.execute_fn),
                                     !.arguments = parsed.arguments],
                          [plot |-> PlayerPlot(s.players[player_idx]),
                           player_idx |-> player_idx,
                           arguments |-> parsed.arguments, flags |-> s.flags],
                          cmd.execute_fn)}

\* execute_command refusing as many tokens as there are descriptions
FlagsRemoved_OneTooFew(s, player_idx, cmd, removed) ==
    IF removed.panic THEN {Panic(s, "removal index out of bounds")}
    ELSE IF Len(removed.args) >= Len(cmd.arguments)
    THEN {Reply([s EXCEPT !.positional = removed.args], player_idx, "Too many arguments.")}
    ELSE ArgumentsParsed([s EXCEPT !.positional = removed.args], player_idx, cmd,
            ParseArgs(s.players[player_idx], cmd.arguments, removed.args, <<>>))

\* execute_command once the flag tokens were removed from the arguments (or
\* Vec::remove panicked)
FlagsRemoved(s, player_idx, cmd, removed) ==
    IF removed.panic THEN {Panic(s, "removal index out of bounds")}
    ELSE IF Len(removed.args) > Len(cmd.arguments)
    THEN {Reply([s EXCEPT !.positional = removed.args], player_idx, "Too many arguments.")}
    ELSE ArgumentsParsed([s EXCEPT !.positional = removed.args], player_idx, cmd,
            ParseArgs(s.players[player_idx], cmd.arguments, removed.args, <<>>))

\* execute_command going on after a flag error
FlagsScanned_IgnoresError(s, player_idx, cmd, args, scan) ==
    FlagsRemoved([s EXCEPT !.flags = scan.flags], player_idx, cmd,
                 RemoveArgs(args, scan.idxs))

\* execute_command once the flag tokens were scanned
FlagsScanned(s, player_idx, cmd, args, scan) ==
    IF scan.err # None THEN {Reply(s, player_idx, scan.err[1])}
    ELSE FlagsRemoved([s EXCEPT !.flags = scan.flags], player_idx, cmd,
            RemoveArgs(args, scan.idxs))

\* execute_command returning from the clipboard check without a message
CommandFound_SilentClipboardCheck(s, player_idx, cmd, args, positions) ==
    IF positions = Some("Make a region selection first.")
    THEN {Reply(s, player_idx, positions[1])}
    ELSE IF positions # None THEN {ReplySystem(s, player_idx, positions[1])}
    ELSE IF cmd.requires_clipboard /\ s.players[player_idx].worldedit_clipboard = None
    THEN {[s EXCEPT !.ret = "handled"]}
    ELSE FlagsScanned(s, player_idx, cmd, args,
            ScanFlags(cmd.flags, args, 0, [err |-> None, idxs |-> <<>>, flags |-> <<>>]))

\* execute_command for the command cmd with the arguments args: the checks
\* of the selection and of the clipboard, then the flags
CommandFound(s, player_idx, cmd, args, positions) ==
    IF positions = Some("Make a region selection first.")
    THEN {Reply(s, player_idx, positions[1])}
    ELSE IF positions # None THEN {ReplySystem(s, player_idx, positions[1])}
    ELSE IF cmd.requires_clipboard /\ s.players[player_idx].worldedit_clipboard = None
    THEN {Reply(s, player_idx, "Your clipboard is empty. Use //copy first.")}
    ELSE FlagsScanned(s, player_idx, cmd, args,
            ScanFlags(cmd.flags, args, 0, [err |-> None, idxs |-> <<>>, flags |-> <<>>]))

\* execute_command after the lookup of the token in COMMANDS and ALIASES
CommandResolved(s, player_idx, res) ==
    IF ~res.found THEN {[s EXCEPT !.ret = "unhandled"]}
    ELSE CommandFound(s, player_idx, COMMANDS[res.name], res.args,
            IF COMMANDS[res.name].requires_positions
            THEN PositionsCheck(s.players[player_idx], PlayerPlot(s.players[player_idx]))
            ELSE None)

\* execute_command(plot, player_idx, command, args) from state s: the set of
\* states it can end in.  The plot is the one the player stands in.
execute_command(s, player_idx, command, args) ==
    CommandResolved(s, player_idx, Resolve(command, args))

----------------------------------------------------------------------------
(* The state machine.  A step is one dispatch of a command line for one    *)
(* player (execute_command, run to completion) or one move of a player,    *)
(* which the network layer makes between dispatches.                       *)

Players == {"A", "B"}

NoOp == [records |-> <<>>, start_pos |-> NoPos, end_pos |-> NoPos]

\* The state a dispatch starts from
Start(b, e, ps) ==
    [blocks |-> b, ents |-> e, players |-> ps, ev |-> <<>>, ret |-> "running",
     fault |-> "", op |-> NoOp, flags |-> <<>>, positional |-> <<>>, invoked |-> None,
     arguments |-> <<>>]

\* What `last` keeps of a dispatch: its input, its outcome and the state before
Record(f, player, command, args, b, e, ps) ==
    [command |-> command, args |-> args, player |-> player,
     ret |-> f.ret, fault |-> f.fault, ev |-> f.ev, flags |-> f.flags,
     positional |-> f.positional, invoked |-> f.invoked, arguments |-> f.arguments,
     blocks |-> b, ents |-> e, players |-> ps]

NoDispatch(b, e, ps) ==
    [command |-> "", args |-> <<>>, player |-> "A",
     ret |-> "none", fault |-> "", ev |-> <<>>, flags |-> <<>>,
     positional |-> <<>>, invoked |-> None, arguments |-> <<>>,
     blocks |-> b, ents |-> e, players |-> ps]

Dispatch(p, command, args) ==
    /\ last.ret # "panic"
    /\ \E f \in execute_command(Start(blocks, ents, players), p, command, args) :
          /\ blocks' = f.blocks
          /\ ents' = f.ents
          /\ players' = f.players
          /\ last' = Record(f, p, command, args, blocks, ents, players)
    /\ prev' = last
    /\ steps' = steps + 1

PlayerMoves(p, pose) ==
    /\ last.ret # "panic"
    /\ players[p].x # pose.x \/ players[p].y # pose.y \/ players[p].z # pose.z
          \/ players[p].facing # pose.facing
    /\ players' = [players EXCEPT ![p].x = pose.x, ![p].y = pose.y, ![p].z = pose.z,
                                  ![p].facing = pose.facing]
    /\ UNCHANGED <<blocks, ents, last, prev, steps>>

\* A position, in half blocks, inside the cell (x, y, z)
Pose(x, y, z, facing) == [x |-> 2 * x + 1, y |-> 2 * y, z |-> 2 * z + 1, facing |-> facing]

NewPlayer(pose, first_position, second_position) ==
    [x |-> pose.x, y |-> pose.y, z |-> pose.z, facing |-> pose.facing,
     first_position |-> first_position, second_position |-> second_position,
     worldedit_clipboard |-> None, worldedit_undo |-> <<>>]

\* The world at start: two barrels, a stone and an air cell in plot 0, a
\* stone in plot 1
InitBlocks ==
    [c \in Cells |->
        CASE c = BlockPos(15, 0, 0) -> BARREL
          [] c = BlockPos(16, 0, 0) -> BARREL
          [] c = BlockPos(15, 0, 1) -> STONE
          [] c = BlockPos(PlotWidth + 15, 0, 0) -> STONE
          [] OTHER -> AIR]

InitEnts ==
    [c \in Cells |->
        CASE c = BlockPos(15, 0, 0) -> "e1"
          [] c = BlockPos(16, 0, 0) -> "e2"
          [] OTHER -> NoEnt]

\* The start: A and B stand in plot 0, A with one of the given selections
InitWith(selections) ==
    /\ blocks = InitBlocks
    /\ ents = InitEnts
    /\ \E sel \in selections :
          players = [p \in Players |->
                        IF p = "A" THEN NewPlayer(Pose(15, 0, 0, "east"), sel[1], sel[2])
                        ELSE NewPlayer(Pose(16, 0, 0, "south"), None, None)]
    /\ last = NoDispatch(blocks, ents, players)
    /\ prev = last
    /\ steps = 0

\* Tokens
Tok_a == <<"-", "a">>
Tok_s == <<"-", "s">>
Tok_as == <<"-", "a", "s">>
Tok_z == <<"-", "z">>
Tok_az == <<"-", "a", "z">>
Tok_x == <<"-", "x">>
Tok_ax == <<"-", "a", "x">>
Tok_xa == <<"-", "x", "a">>
Tok_val == <<"v", "a", "l">>
Tok_zero == <<"0", "%", "s", "t", "o", "n", "e">>
Tok_zeros == <<"0", "%", "s", "t", "o", "n", "e", ",", "0", "%", "b", "a", "r", "r", "e", "l">>
Tok_id == <<"=", "1">>
Tok_eqname == <<"=", "s", "t", "o", "n", "e">>
Tok_huge == <<"=", "4", "2", "9", "4", "9", "6", "7", "2", "9", "6">>
Tok_prefixed == <<"m", "i", "n", "e", "c", "r", "a", "f", "t", ":", "b", "a", "r", "r", "e", "l">>
Tok_open == <<"s", "t", "o", "n", "e", ",">>
Tok_half == <<"0", ".", "5", "%", "b", "a", "r", "r", "e", "l">>
Tok_0 == <<"0">>
Tok_1 == <<"1">>
Tok_2 == <<"2">>
Tok_me == <<"m", "e">>
Tok_up == <<"u", "p">>
Tok_stone == <<"s", "t", "o", "n", "e">>
Tok_air == <<"a", "i", "r">>
Tok_barrel == <<"b", "a", "r", "r", "e", "l">>
Tok_mix == <<"5", "0", "%", "s", "t", "o", "n", "e", ",", "5", "0", "%", "a", "i", "r">>
Tok_dirt == <<"d", "i", "r", "t">>
Tok_uneven ==
    <<"9", "%", "s", "t", "o", "n", "e", ",", "2", "0", "%", "s", "t", "o", "n", "e", ",",
      "4", "0", "%", "b", "a", "r", "r", "e", "l">>
Tok_good == <<"g", "o", "o", "d">>
Tok_junk == <<"j", "u", "n", "k">>
Tok_lost == <<"l", "o", "s", "t">>
Tok_short == <<"s", "h", "o", "r", "t">>
Tok_far == <<"f", "a", "r">>
Tok_long == <<"l", "o", "n", "g">>
Tok_bad == <<"?", "?">>

Line(command, args) == [command |-> command, args |-> args]

\* Command lines of the dispatch specification: every command and alias,
\* with well-formed and ill-formed flags and arguments
CmdLines ==
    {Line("copy", <<>>), Line("c", <<>>), Line("cut", <<>>), Line("x", <<>>),
     Line("paste", <<>>), Line("paste", <<Tok_a>>), Line("v", <<>>), Line("v", <<Tok_a>>),
     Line("va", <<>>), Line("paste", <<Tok_z>>), Line("paste", <<Tok_az>>), Line("paste", <<Tok_1>>),
     Line("undo", <<>>), Line("undo", <<Tok_1>>),
     Line("stack", <<Tok_1>>), Line("stack", <<Tok_a, Tok_1>>), Line("s", <<Tok_1, Tok_me>>),
     Line("sa", <<Tok_1>>), Line("stack", <<Tok_1, Tok_up>>),
     Line("move", <<>>), Line("move", <<Tok_a>>), Line("move", <<Tok_1, Tok_s>>),
     Line("move", <<Tok_as>>), Line("move", <<Tok_as, Tok_1>>),
     Line("move", <<Tok_a, Tok_s>>), Line("move", <<Tok_stone>>),
     Line("move", <<Tok_as, Tok_1, Tok_me, Tok_up>>),
     Line("count", <<Tok_stone>>), Line("count", <<>>),
     Line("sel", <<>>), Line("pos1", <<>>), Line("1", <<>>), Line("pos2", <<>>),
     Line("2", <<>>),
     Line("set", <<Tok_stone>>), Line("set", <<Tok_mix>>), Line("set", <<>>),
     Line("set", <<Tok_bad>>), Line("set", <<Tok_dirt>>),
     Line("set", <<Tok_stone, Tok_air>>), Line("set", <<Tok_bad, Tok_air>>),
     Line("replace", <<Tok_stone, Tok_barrel>>), Line("replace", <<Tok_stone>>),
     Line("load", <<Tok_good>>), Line("load", <<Tok_junk>>), Line("load", <<Tok_lost>>), Line("load", <<Tok_short>>),
     Line("load", <<>>),
     Line("help", <<>>), Line("", <<Tok_1>>)}

CmdPoses ==
    {Pose(15, 0, 0, "east"), Pose(16, 0, 1, "west"), Pose(PlotWidth + 15, 0, 0, "east")}

Selections ==
    {<<None, None>>,
     <<Some(BlockPos(15, 0, 0)), Some(BlockPos(16, 0, 0))>>,
     <<Some(BlockPos(16, 0, 1)), Some(BlockPos(15, 0, 0))>>}

Init == InitWith(Selections)

DispatchCmd == \E l \in CmdLines : steps < MaxCmdSteps /\ Dispatch("A", l.command, l.args)

MoveCmd == \E pose \in CmdPoses : PlayerMoves("A", pose)

Next == DispatchCmd \/ MoveCmd

Spec == Init /\ [][Next]_vars

\* Command lines of the editing specification: well-formed edits
EditLines ==
    {Line("copy", <<>>), Line("cut", <<>>), Line("paste", <<>>),
     Line("paste", <<Tok_a>>), Line("undo", <<>>),
     Line("set", <<Tok_stone>>), Line("replace", <<Tok_stone, Tok_barrel>>),
     Line("move", <<Tok_1>>), Line("stack", <<Tok_1>>)}

EditPoses ==
    {Pose(15, 0, 0, "east"), Pose(16, 0, 0, "south"), Pose(16, 0, 1, "west"),
     Pose(PlotWidth + 15, 0, 0, "east")}

InitEdit == InitWith(Selections \ {<<None, None>>})

DispatchEdit ==
    \E l \in EditLines : steps < MaxEditSteps /\ Dispatch("A", l.command, l.args)

MoveEdit == \E pose \in EditPoses : PlayerMoves("A", pose)

NextEdit == DispatchEdit \/ MoveEdit

SpecEdit == InitEdit /\ [][NextEdit]_vars

\* The round trip specification: from any content of the window of plot 0,
\* any two corners of it and an origin, a cuboid is captured with
\* create_clipboard and pasted back at the origin with paste_clipboard.
\* The corners are the selection of A and the origin is the cell A stands in.
RoundWorlds == {b \in [Cells -> Ids] : \A c \in PlotCells(1) : b[c] = AIR}

RoundEnts == {e \in [Cells -> {NoEnt, "e1"}] : \A c \in PlotCells(1) : e[c] = NoEnt}

RoundPoses == {Pose(15, 0, 0, "east"), Pose(16, 0, 1, "west")}

InitRound ==
    /\ blocks \in RoundWorlds
    /\ ents \in RoundEnts
    /\ \E pose \in RoundPoses, first_pos \in PlotCells(0), second_pos \in PlotCells(0) :
          players = [p \in Players |->
                        IF p = "A" THEN NewPlayer(pose, Some(first_pos), Some(second_pos))
                        ELSE NewPlayer(Pose(16, 0, 0, "south"), None, None)]
    /\ last = NoDispatch(blocks, ents, players)
    /\ prev = last
    /\ steps = 0

\* create_clipboard(plot, origin, first_pos, second_pos), then
\* paste_clipboard(plot, &cb, origin, false)
RoundTripOf(s, plot_x, origin, first_pos, second_pos) ==
    paste_clipboard(s, plot_x, create_clipboard(s, plot_x, origin, first_pos, second_pos),
                    origin, FALSE)

RoundTrip ==
    /\ steps < MaxRoundTrips
    /\ \E f \in {RoundTripOf(Start(blocks, ents, players), PlayerPlot(players["A"]),
                              PlayerFloorPos(players["A"]),
                              players["A"].first_position[1],
                              players["A"].second_position[1])} :
          /\ blocks' = f.blocks
          /\ ents' = f.ents
          /\ players' = f.players
          /\ last' = Record(f, "A", "roundtrip", <<>>, blocks, ents, players)
    /\ prev' = last
    /\ steps' = steps + 1

NextRound == RoundTrip

SpecRound == InitRound /\ [][NextRound]_vars

\* The flag specification: execute_command past the lookup, for a command
\* whose descriptor declares the flag a without an argument and the flag x
\* with one (FlagDescription.argument_type is Some), and one optional
\* UnsignedInteger argument.  No entry of COMMANDS declares such a flag; the
\* flag loops of execute_command are run on this descriptor.
FlaggedCommand ==
    Command(<<"UnsignedInteger">>, <<Flag("a", None), Flag("x", Some("String"))>>,
            FALSE, FALSE, "execute_sel")

FlaggedTokens == {Tok_a, Tok_x, Tok_ax, Tok_xa, Tok_val, Tok_1}

FlaggedArgs ==
    {<<>>} \cup {<<t>> : t \in FlaggedTokens}
        \cup {<<t, u>> : t \in FlaggedTokens, u \in FlaggedTokens}
        \cup {<<t, u, v>> : t \in FlaggedTokens, u \in FlaggedTokens, v \in {Tok_val, Tok_1, Tok_a}}

InitFlags == InitWith({<<Some(BlockPos(15, 0, 0)), Some(BlockPos(16, 0, 0))>>})

DispatchFlagged ==
    \E args \in FlaggedArgs :
        /\ steps < MaxFlagSteps
        /\ last.ret # "panic"
        /\ \E f \in CommandFound(Start(blocks, ents, players), "A", FlaggedCommand, args, None) :
              /\ blocks' = f.blocks
              /\ ents' = f.ents
              /\ players' = f.players
              /\ last' = Record(f, "A", "flagged", args, blocks, ents, players)
        /\ prev' = last
        /\ steps' = steps + 1

NextFlags == DispatchFlagged

\* The pattern specification: set dispatched with one pattern token, for a
\* player whose selection lies in the plot
PatternTokens ==
    {Tok_stone, Tok_air, Tok_barrel, Tok_mix, Tok_dirt, Tok_bad, Tok_zero, Tok_zeros,
     Tok_id, Tok_eqname, Tok_huge, Tok_prefixed, Tok_open, Tok_half, Tok_uneven}

InitPattern == InitWith({<<Some(BlockPos(16, 0, 1)), Some(BlockPos(15, 0, 0))>>})

DispatchPattern ==
    \E tok \in PatternTokens : steps < MaxPatternSteps /\ Dispatch("A", "set", <<tok>>)

NextPattern == DispatchPattern

\* The schematic specification: files are loaded to the clipboard, pasted,
\* captured again and undone
SchemLines ==
    {Line("load", <<Tok_good>>), Line("load", <<Tok_far>>), Line("load", <<Tok_long>>),
     Line("paste", <<>>), Line("paste", <<Tok_a>>), Line("copy", <<>>),
     Line("cut", <<>>), Line("undo", <<>>)}

InitSchem == InitWith(Selections \ {<<None, None>>})

DispatchSchem ==
    \E l \in SchemLines : steps < MaxSchemSteps /\ Dispatch("A", l.command, l.args)

MoveSchem == \E pose \in CmdPoses : PlayerMoves("A", pose)

NextSchem == DispatchSchem \/ MoveSchem

SpecSchem == InitSchem /\ [][NextSchem]_vars

\* The operation specification: a WorldEditOperation is built from the two
\* corners of a selection (prev keeps it as built) and update_block is
\* called on it with positions in and out of its chunks (last.ev keeps them)
TrackerCorners ==
    {BlockPos(15, 0, 0), BlockPos(16, 0, 1), BlockPos(33, 0, 17), BlockPos(0, 0, 16)}

TrackerCells ==
    {BlockPos(15, 0, 0), BlockPos(16, 0, 0), BlockPos(16, 0, 20), BlockPos(40, 0, 1),
     BlockPos(33, 0, 17), BlockPos(0, 0, 0)}

InitTracker ==
    /\ blocks = InitBlocks
    /\ ents = InitEnts
    /\ \E first_pos \in TrackerCorners, second_pos \in TrackerCorners :
          players = [p \in Players |->
                        IF p = "A"
                        THEN NewPlayer(Pose(15, 0, 0, "east"), Some(first_pos),
                                       Some(second_pos))
                        ELSE NewPlayer(Pose(16, 0, 0, "south"), None, None)]
    /\ last = [Start(blocks, ents, players) EXCEPT
                  !.op = worldedit_start_operation(Start(blocks, ents, players), "A")]
    /\ prev = last
    /\ steps = 0

RecordMutation ==
    \E block_pos \in TrackerCells :
        /\ steps < MaxMutations
        /\ last' = Log([last EXCEPT !.op = update_block(@, block_pos)],
                       "update_block", "A", block_pos, 0)
        /\ steps' = steps + 1
        /\ UNCHANGED <<blocks, ents, players, prev>>

NextTracker == RecordMutation

SpecTracker == InitTracker /\ [][NextTracker]_vars

\* The undo specification: one player of plot 0 with a clipboard dispatches
\* set, replace and paste, then undo; steps counts the commands that are not
\* undone yet
UndoableLines ==
    {Line("set", <<Tok_stone>>), Line("set", <<Tok_air>>),
     Line("replace", <<Tok_stone, Tok_barrel>>), Line("paste", <<>>),
     Line("paste", <<Tok_a>>)}

UndoPoses == {Pose(15, 0, 0, "east"), Pose(16, 0, 0, "south"), Pose(16, 0, 1, "west")}

InitUndo ==
    /\ blocks = InitBlocks
    /\ ents = InitEnts
    /\ \E sel \in Selections \ {<<None, None>>} :
          \E f \in execute_command(
                    Start(InitBlocks, InitEnts,
                          [p \in Players |->
                              IF p = "A"
                              THEN NewPlayer(Pose(15, 0, 0, "east"), sel[1], sel[2])
                              ELSE NewPlayer(Pose(16, 0, 0, "south"), None, None)]),
                    "A", "copy", <<>>) :
              players = f.players
    /\ last = NoDispatch(blocks, ents, players)
    /\ prev = last
    /\ steps = 0

DispatchCounted(p, command, args, d) ==
    /\ last.ret # "panic"
    /\ \E f \in execute_command(Start(blocks, ents, players), p, command, args) :
          /\ blocks' = f.blocks
          /\ ents' = f.ents
          /\ players' = f.players
          /\ last' = Record(f, p, command, args, blocks, ents, players)
    /\ prev' = last
    /\ steps' = steps + d

DispatchUndoable ==
    \E l \in UndoableLines :
        /\ last.command # "undo"
        /\ steps < MaxUndoDepth
        /\ DispatchCounted("A", l.command, l.args, 1)

DispatchUndo == steps > 0 /\ DispatchCounted("A", "undo", <<>>, -1)

MoveUndo ==
    \E pose \in UndoPoses : last.command # "undo" /\ PlayerMoves("A", pose)

NextUndo == DispatchUndoable \/ DispatchUndo \/ MoveUndo

SpecUndo == InitUndo /\ [][NextUndo]_vars

\* The stack specification: one player with a selection stacks it 0, 1 or 2
\* times along the facing, between cuts and fills
StackLines ==
    {Line("stack", <<Tok_0>>), Line("stack", <<Tok_1>>), Line("stack", <<Tok_2>>),
     Line("stack", <<Tok_a, Tok_1>>), Line("set", <<Tok_stone>>), Line("cut", <<>>)}

InitStack == InitWith(Selections \ {<<None, None>>})

DispatchStack ==
    \E l \in StackLines : steps < MaxStackSteps /\ Dispatch("A", l.command, l.args)

MoveStack == \E pose \in EditPoses : PlayerMoves("A", pose)

NextStack == DispatchStack \/ MoveStack

SpecStack == InitStack /\ [][NextStack]_vars

\* The two-player specification: A and B, both with a selection in plot 0,
\* dispatch edits and undos in any order
TwoLines ==
    {Line("set", <<Tok_stone>>), Line("set", <<Tok_air>>), Line("copy", <<>>),
     Line("paste", <<>>), Line("undo", <<>>), Line("cut", <<>>),
     Line("move", <<Tok_1>>), Line("replace", <<Tok_stone, Tok_barrel>>)}

InitTwo ==
    /\ blocks = InitBlocks
    /\ ents = InitEnts
    /\ players = [p \in Players |->
                    IF p = "A"
                    THEN NewPlayer(Pose(15, 0, 0, "east"),
                                   Some(BlockPos(15, 0, 0)), Some(BlockPos(16, 0, 0)))
                    ELSE NewPlayer(Pose(16, 0, 0, "south"),
                                   Some(BlockPos(16, 0, 1)), Some(BlockPos(16, 0, 0)))]
    /\ last = NoDispatch(blocks, ents, players)
    /\ prev = last
    /\ steps = 0

DispatchTwo ==
    \E p \in Players, l \in TwoLines :
        steps < MaxTwoSteps /\ Dispatch(p, l.command, l.args)

NextTwo == DispatchTwo

SpecTwo == InitTwo /\ [][NextTwo]_vars

SpecPattern == InitPattern /\ [][NextPattern]_vars

SpecFlags == InitFlags /\ [][NextFlags]_vars

----------------------------------------------------------------------------
(* Properties.  `last` is the latest dispatch: its command line, its log   *)
(* (ev), its outcome and the world and players it started from; blocks,    *)
(* ents and players are the state it ended in (players may have moved      *)
(* since).  `prev` is the dispatch before it.                              *)

\* The indices of the entries of the given kinds in the log of the latest dispatch
EvIdx(kinds) == {i \in 1..Len(last.ev) : last.ev[i].kind \in kinds}

\* The latest dispatch ran the bound operation execute_fn
Invoked(execute_fn) == last.invoked = Some(execute_fn)

\* The panic messages of Argument::unwrap_uint, unwrap_direction,
\* unwrap_pattern, unwrap_mask and unwrap_string
WrongKindFaults ==
    {"Argument was not an UnsignedInteger", "Argument was not an Direction",
     "Argument was not a Pattern", "Argument was not a Mask", "Argument was not a String"}

\* C1: no command line that passes the precondition, flag and argument
\* checks makes its bound operation retrieve an argument as a kind other
\* than the one the parser stored for it (a fatal fault)
C1_NoWrongKindRetrieval ==
    ~(last.invoked # None /\ last.ret = "panic" /\ last.fault \in WrongKindFaults)

\* The bound operations of the mutating commands
Mutating ==
    {"execute_set", "execute_replace", "execute_cut", "execute_move", "execute_stack",
     "execute_paste"}

\* C2: every mutating command (set, replace, cut, move, stack, paste) that
\* completes pushes exactly one undo entry, recorded for the plot of the
\* player, onto the player's undo stack, and pushes it before its first
\* write of a cell or of a block entity
C2_UndoPushedBeforeWrite ==
    (last.invoked # None /\ last.invoked[1] \in Mutating /\ last.ret = "handled") =>
        /\ Cardinality(EvIdx({"undo_push"})) = 1
        /\ \A i \in EvIdx({"set_block", "set_entity"}) :
              \A j \in EvIdx({"undo_push"}) : j < i
        /\ Len(players[last.player].worldedit_undo)
              = Len(last.players[last.player].worldedit_undo) + 1
        /\ players[last.player].worldedit_undo[Len(players[last.player].worldedit_undo)].plot_x
              = PlayerPlot(last.players[last.player])

\* The cuboid a paste dispatched from the state before `d` writes: its least
\* and greatest cell
PasteDest(d) ==
    LET pl == d.players[d.player]
        cb == pl.worldedit_clipboard[1]
        pos == PlayerFloorPos(pl)
        lo == BlockPos(pos.x - cb.offset_x, pos.y - cb.offset_y, pos.z - cb.offset_z)
    IN  [lo |-> lo,
         hi |-> BlockPos(lo.x + cb.size_x - 1, lo.y + cb.size_y - 1, lo.z + cb.size_z - 1)]

InCuboid(c, lo, hi) ==
    /\ lo.x <= c.x /\ c.x <= hi.x
    /\ lo.y <= c.y /\ c.y <= hi.y
    /\ lo.z <= c.z /\ c.z <= hi.z

\* The latest dispatch is an undo that replayed an entry, and the dispatch
\* before it is a paste by the same player whose destination lies inside
\* the plot
PasteThenUndo ==
    /\ Invoked("execute_undo")
    /\ EvIdx({"undo_pop"}) # {}
    /\ EvIdx({"error"}) = {}
    /\ prev.invoked = Some("execute_paste")
    /\ prev.ret = "handled"
    /\ prev.player = last.player
    /\ InPlotBounds(PlayerPlot(prev.players[prev.player]), PlotZ,
                    PasteDest(prev).lo.x, PasteDest(prev).lo.z)
    /\ InPlotBounds(PlayerPlot(prev.players[prev.player]), PlotZ,
                    PasteDest(prev).hi.x, PasteDest(prev).hi.z)

AliasBase(token) == Join(Head(Split(ALIASES[token], " ")))
AliasInjected(token) == Tail(Split(ALIASES[token], " "))

\* The latest dispatch ended as the run f of execute_command ends: the same
\* log, outcome and world, and the same selection, clipboard and undo stack
\* of every player
SameOutcome(f) ==
    /\ f.ev = last.ev
    /\ f.ret = last.ret
    /\ f.fault = last.fault
    /\ f.blocks = blocks
    /\ f.ents = ents
    /\ \A p \in Players :
          /\ f.players[p].first_position = players[p].first_position
          /\ f.players[p].second_position = players[p].second_position
          /\ f.players[p].worldedit_clipboard = players[p].worldedit_clipboard
          /\ f.players[p].worldedit_undo = players[p].worldedit_undo

\* C4: the dispatch of an alias token does what the dispatch of its base
\* command does with the alias's injected tokens put in front of the
\* caller's tokens ('va' as 'paste -a', 'sa' as 'stack -a', the others as
\* their base command with the caller's tokens unchanged)
C4_AliasAsBase ==
    (last.command \in DOMAIN ALIASES /\ last.command \notin DOMAIN COMMANDS) =>
        \E f \in execute_command(Start(last.blocks, last.ents, last.players), last.player,
                                 AliasBase(last.command),
                                 AliasInjected(last.command) \o last.args) :
            SameOutcome(f)

\* The dispatch d reached the flag loops: its token names a command and the
\* checks of the selection and of the clipboard passed
ReachedFlags(d) ==
    /\ Resolve(d.command, d.args).found
    /\ COMMANDS[Resolve(d.command, d.args).name].requires_positions =>
          PositionsCheck(d.players[d.player], PlayerPlot(d.players[d.player])) = None
    /\ COMMANDS[Resolve(d.command, d.args).name].requires_clipboard =>
          d.players[d.player].worldedit_clipboard # None

\* Every letter of every flag token of args is a flag the command declares,
\* none of which takes an argument
FlagsValid(cmd, args) ==
    \A i \in 1..Len(args) :
        StartsWith(args[i], "-") =>
            \A k \in 2..Len(args[i]) :
                \E j \in 1..Len(cmd.flags) :
                    cmd.flags[j].letter = args[i][k] /\ cmd.flags[j].argument_type = None

IsFlagToken(tok) == StartsWith(tok, "-")
IsPositional(tok) == ~StartsWith(tok, "-")

\* The letters of the flag tokens of args, in order
RECURSIVE FlagLetters(_)
FlagLetters(args) ==
    IF args = <<>> THEN <<>>
    ELSE (IF IsFlagToken(Head(args)) THEN Tail(Head(args)) ELSE <<>>)
            \o FlagLetters(Tail(args))

\* C5: when all flag tokens of a command line are valid, flag extraction
\* removes each flag token once and nothing else: the positional list is
\* the other tokens in their order, and every letter of every flag token,
\* grouped or not, is recorded as an active flag
C5_FlagExtraction ==
    (/\ last.ret \in {"handled", "panic"}
     /\ ReachedFlags(last)
     /\ FlagsValid(COMMANDS[Resolve(last.command, last.args).name],
                   Resolve(last.command, last.args).args)) =>
        /\ last.fault # "removal index out of bounds"
        /\ last.positional = SelectSeq(Resolve(last.command, last.args).args, IsPositional)
        /\ last.flags = FlagLetters(Resolve(last.command, last.args).args)

\* C6: when a dispatch ends in an error reported to the player (a message
\* sent with send_error_message or send_system_message), it wrote no cell
\* and no block entity, the world is as it was before the dispatch, and the
\* dispatch returned instead of panicking
C6_ErrorLeavesWorld ==
    EvIdx({"error", "system"}) # {} =>
        /\ EvIdx({"set_block", "set_entity"}) = {}
        /\ blocks = last.blocks
        /\ ents = last.ents
        /\ last.ret = "handled"

\* An error is reported by a dispatch that follows one which wrote cells
C6_ErrorAfterEdit ==
    /\ EvIdx({"error", "system"}) # {}
    /\ prev.ret = "handled"
    /\ \E i \in 1..Len(prev.ev) : prev.ev[i].kind = "set_block"

\* The undo stack of the player of dispatch d before d, and its top entry
StackBefore(d) == d.players[d.player].worldedit_undo
TopUndo(d) == StackBefore(d)[Len(StackBefore(d))]

\* The latest dispatch is an undo on a stack whose top entry was recorded
\* in another plot than the one the player stands in
UndoElsewhere ==
    /\ Invoked("execute_undo")
    /\ StackBefore(last) # <<>>
    /\ TopUndo(last).plot_x # PlayerPlot(last.players[last.player])

\* C7: an undo issued in another plot than the one recorded in the top
\* entry reports the error, removes that one entry from the player's stack
\* and leaves the entries below it, and writes no cell and no block entity
C7_UndoElsewhereDropsOne ==
    UndoElsewhere =>
        /\ \E i \in EvIdx({"error"}) :
              /\ last.ev[i].who = last.player
              /\ last.ev[i].val = "Cannot undo outside of your current plot."
        /\ players[last.player].worldedit_undo
              = SubSeq(StackBefore(last), 1, Len(StackBefore(last)) - 1)
        /\ \A p \in Players \ {last.player} :
              players[p].worldedit_undo = last.players[p].worldedit_undo
        /\ EvIdx({"set_block", "set_entity"}) = {}
        /\ blocks = last.blocks
        /\ ents = last.ents

\* Such an undo on a stack of two entries: one entry is left
C7_UndoElsewhereOfTwo ==
    /\ UndoElsewhere
    /\ Len(StackBefore(last)) = 2
    /\ Len(players[last.player].worldedit_undo) = 1

\* The latest dispatch is an undo in the plot recorded in the top entry
UndoHere ==
    /\ Invoked("execute_undo")
    /\ StackBefore(last) # <<>>
    /\ TopUndo(last).plot_x = PlayerPlot(last.players[last.player])

\* The cell c lies in the cuboid of the undo entry u, and the id the
\* snapshot of u holds for it
InSnapshot(u, c) ==
    InCuboid(c, u.pos,
             BlockPos(u.pos.x + u.clipboard.size_x - 1, u.pos.y + u.clipboard.size_y - 1,
                      u.pos.z + u.clipboard.size_z - 1))
SnapshotId(u, c) ==
    u.clipboard.data[(c.y - u.pos.y) * u.clipboard.size_z * u.clipboard.size_x
                        + (c.z - u.pos.z) * u.clipboard.size_x + (c.x - u.pos.x) + 1]

\* C8: an undo in the recorded plot pops the entry pushed last, and after
\* it every cell of that entry's cuboid holds the id of the snapshot, air
\* included
C8_UndoRestoresSnapshot ==
    UndoHere =>
        /\ players[last.player].worldedit_undo
              = SubSeq(StackBefore(last), 1, Len(StackBefore(last)) - 1)
        /\ \A c \in PlotCells(TopUndo(last).plot_x) :
              InSnapshot(TopUndo(last), c) => blocks[c] = SnapshotId(TopUndo(last), c)

\* Such an undo puts air back where the snapshot holds air and the cell
\* held a block
C8_UndoRestoresAir ==
    /\ UndoHere
    /\ \E c \in PlotCells(TopUndo(last).plot_x) :
          /\ InSnapshot(TopUndo(last), c)
          /\ SnapshotId(TopUndo(last), c) = AIR
          /\ last.blocks[c] # AIR
          /\ blocks[c] = AIR

\* C9: capturing a cuboid given by two corners, in either order, and
\* pasting the snapshot back at the origin of the capture without air
\* skipping leaves every cell and every block entity as it was, inside and
\* outside the cuboid, and writes no cell outside the cuboid
C9_RoundTripKeepsWorld ==
    last.command = "roundtrip" =>
        /\ blocks = last.blocks
        /\ ents = last.ents
        /\ \A i \in EvIdx({"set_block", "set_entity"}) :
              InCuboid(last.ev[i].pos,
                       PosMin(players["A"].first_position[1], players["A"].second_position[1]),
                       PosMax(players["A"].first_position[1], players["A"].second_position[1]))

\* A round trip of a cuboid of more than one cell whose corners are given
\* greatest first, from an origin that is not its least corner, over blocks,
\* air and a block entity
C9_RoundTripReversedCorners ==
    /\ last.command = "roundtrip"
    /\ players["A"].first_position[1].x > players["A"].second_position[1].x
    /\ players["A"].first_position[1].z > players["A"].second_position[1].z
    /\ PlayerFloorPos(players["A"]) # players["A"].second_position[1]
    /\ EvIdx({"set_entity"}) # {}
    /\ \E i \in EvIdx({"set_block"}) : last.ev[i].val = AIR
    /\ \E i \in EvIdx({"set_block"}) : last.ev[i].val = STONE

\* The token names a command or an alias
Known(token) == token \in DOMAIN COMMANDS \/ token \in DOMAIN ALIASES

\* C10: execute_command returns false exactly when the token is in neither
\* table, and then sends nothing and changes no player and no world state;
\* in every other case, error paths included, it returns true; a token of
\* the command table resolves to its entry there
C10_HandledIffKnown ==
    last.ret # "none" =>
        /\ last.ret = "unhandled" <=> ~Known(last.command)
        /\ Known(last.command) => last.ret = "handled"
        /\ ~Known(last.command) =>
              /\ last.ev = <<>>
              /\ blocks = last.blocks
              /\ ents = last.ents
              /\ \A p \in Players :
                    /\ players[p].first_position = last.players[p].first_position
                    /\ players[p].second_position = last.players[p].second_position
                    /\ players[p].worldedit_clipboard = last.players[p].worldedit_clipboard
                    /\ players[p].worldedit_undo = last.players[p].worldedit_undo
        /\ last.command \in DOMAIN COMMANDS =>
              Resolve(last.command, last.args).name = last.command

\* The latest dispatch left the world and every player's selection,
\* clipboard and undo stack as they were
StateKept ==
    /\ blocks = last.blocks
    /\ ents = last.ents
    /\ \A p \in Players :
          /\ players[p].first_position = last.players[p].first_position
          /\ players[p].second_position = last.players[p].second_position
          /\ players[p].worldedit_clipboard = last.players[p].worldedit_clipboard
          /\ players[p].worldedit_undo = last.players[p].worldedit_undo

\* The latest dispatch sent exactly one message, an error or refusal message
\* to its player, and did nothing else
OnlyRefused ==
    /\ last.ret = "handled"
    /\ Len(last.ev) = 1
    /\ last.ev[1].kind \in {"error", "system"}
    /\ last.ev[1].who = last.player

\* The command the latest dispatch resolved to
LastName == Resolve(last.command, last.args).name

NeedSelection == {"copy", "cut", "stack", "move", "count", "set", "replace"}

\* A corner of the selection of the player of dispatch d is unset or lies
\* outside the plot the player stands in
SelectionMissing(d) ==
    LET pl == d.players[d.player]
    IN  \/ pl.first_position = None
        \/ pl.second_position = None
        \/ ~InPlotBounds(PlayerPlot(pl), PlotZ, pl.first_position[1].x, pl.first_position[1].z)
        \/ ~InPlotBounds(PlayerPlot(pl), PlotZ, pl.second_position[1].x, pl.second_position[1].z)

\* C11: a command that requires a selection, dispatched while a corner is
\* unset or outside the plot, sends an error message to its player, invokes
\* no operation and leaves world, clipboard, undo stack and selection alone
C11_SelectionRequired ==
    (Known(last.command) /\ LastName \in NeedSelection /\ SelectionMissing(last)) =>
        /\ OnlyRefused
        /\ last.invoked = None
        /\ StateKept

\* A selection command refused because only the second corner lies outside
\* the plot, after an edit
C11_SecondCornerOutside ==
    /\ LastName \in NeedSelection
    /\ last.players[last.player].first_position # None
    /\ last.players[last.player].second_position # None
    /\ InPlotBounds(PlayerPlot(last.players[last.player]), PlotZ,
                    last.players[last.player].first_position[1].x,
                    last.players[last.player].first_position[1].z)
    /\ SelectionMissing(last)
    /\ OnlyRefused

\* C12: paste, under its own name or an alias, dispatched for a player
\* without a clipboard sends an error message, invokes no operation, pushes
\* no undo entry and writes no cell
C12_ClipboardRequired ==
    (Known(last.command) /\ LastName = "paste"
        /\ last.players[last.player].worldedit_clipboard = None) =>
        /\ OnlyRefused
        /\ last.ev[1].kind = "error"
        /\ last.invoked = None
        /\ EvIdx({"undo_push", "set_block", "set_entity"}) = {}
        /\ StateKept

\* The alias va refused for the missing clipboard, after a dispatch that was
\* handled
C12_AliasWithoutClipboard ==
    /\ last.command = "va"
    /\ last.players[last.player].worldedit_clipboard = None
    /\ prev.ret = "handled"
    /\ OnlyRefused
    /\ last.ev[1].kind = "error"

\* The arguments of the latest dispatch after the alias is expanded, and the
\* letters of their flag tokens in the order of the scan
LastArgs == Resolve(last.command, last.args).args
LastLetters == FlagLetters(LastArgs)

\* The flag letters the command of the latest dispatch declares
LastDeclared == {COMMANDS[LastName].flags[j].letter : j \in 1..Len(COMMANDS[LastName].flags)}

\* The places of LastLetters that hold an undeclared letter
Undeclared == {k \in 1..Len(LastLetters) : LastLetters[k] \notin LastDeclared}

\* C13: a dispatch that reaches the flag scan with a letter its command does
\* not declare fails with the unknown-flag error naming the first such
\* letter and invokes no operation; when every letter of every flag token is
\* declared, no unknown-flag error is sent and the letters are taken as flags
C13_UnknownFlag ==
    (last.ret \in {"handled", "panic"} /\ ReachedFlags(last)) =>
        IF Undeclared # {}
        THEN /\ OnlyRefused
             /\ last.ev[1].kind = "error"
             /\ \E k \in Undeclared :
                    /\ \A j \in Undeclared : k <= j
                    /\ last.ev[1].val = "Unknown flag: " \o LastLetters[k]
             /\ last.invoked = None
        ELSE /\ \A i \in EvIdx({"error", "system", "msg"}) :
                    \A k \in 1..Len(LastLetters) :
                        last.ev[i].val # "Unknown flag: " \o LastLetters[k]
             /\ last.flags = LastLetters

\* A paste with a clipboard refused for the undeclared letter of a token that
\* begins with a declared one
C13_UnknownAfterDeclared ==
    /\ last.command = "paste"
    /\ last.args = <<Tok_az>>
    /\ ReachedFlags(last)
    /\ OnlyRefused
    /\ last.ev[1].val = "Unknown flag: z"

\* The token tok groups the flag x, which takes an argument, with a further
\* letter after it; the token ends with x
ArgFlagNotLast(tok) ==
    IsFlagToken(tok) /\ \E k \in 2..(Len(tok) - 1) : tok[k] = "x"
ArgFlagLast(tok) == IsFlagToken(tok) /\ Len(tok) >= 2 /\ tok[Len(tok)] = "x"

\* The places of args that hold neither a flag token nor the token that
\* follows a grouping ending with x
PositionalPlaces(args) ==
    {i \in 1..Len(args) :
        /\ ~IsFlagToken(args[i])
        /\ ~(i > 1 /\ ArgFlagLast(args[i - 1]))}

RECURSIVE TokensAt(_, _, _)
TokensAt(args, places, i) ==
    IF i > Len(args) THEN <<>>
    ELSE (IF i \in places THEN <<args[i]>> ELSE <<>>) \o TokensAt(args, places, i + 1)

PassedFlags ==
    /\ last.ret \in {"handled", "panic"}
    /\ Known(last.command)
    /\ ReachedFlags(last)
    /\ Undeclared = {}
    /\ last.fault # "removal index out of bounds"

LastDescs == COMMANDS[LastName].arguments
Missing == {i \in 1..Len(LastDescs) : i > Len(last.positional)}

\* Every token supplied for an argument of the latest dispatch parses
SuppliedParse ==
    \A j \in 1..Len(last.positional) :
        ParseSome(last.players[last.player], LastDescs[j], last.positional[j]).kind = "ok"

\* C16: an argument without a token is the facing of the player for a
\* Direction and 1 for an UnsignedInteger; for a Pattern, a Mask or a String
\* the dispatch fails with the parse error 'argument can't be inferred' of
\* the declared type and invokes no operation
C16_ArgumentDefaults ==
    (PassedFlags /\ Len(last.positional) <= Len(LastDescs) /\ SuppliedParse) =>
        IF \E i \in Missing : LastDescs[i] \in {"Pattern", "Mask", "String"}
        THEN /\ OnlyRefused
             /\ last.ev[1].kind = "error"
             /\ \E i \in Missing :
                    /\ \A j \in Missing : i <= j
                    /\ LastDescs[i] \in {"Pattern", "Mask", "String"}
                    /\ last.ev[1].val = "Error parsing argument of type " \o LastDescs[i]
                                            \o ": argument can't be inferred"
             /\ last.invoked = None
        ELSE /\ last.invoked = Some(COMMANDS[LastName].execute_fn)
             /\ Len(last.arguments) = Len(LastDescs)
             /\ \A i \in Missing :
                    /\ LastDescs[i] = "Direction" =>
                          last.arguments[i] = [kind |-> "Direction",
                                               val |-> last.players[last.player].facing]
                    /\ LastDescs[i] = "UnsignedInteger" =>
                          last.arguments[i] = [kind |-> "UnsignedInteger", val |-> 1]

\* A move without tokens by a player facing west runs with the count 1 and
\* the direction west, after a set without tokens was refused
C16_DefaultsAfterRefusal ==
    /\ last.command = "move"
    /\ last.positional = <<>>
    /\ last.players[last.player].facing = "west"
    /\ last.invoked = Some("execute_move")
    /\ last.arguments = <<[kind |-> "UnsignedInteger", val |-> 1],
                          [kind |-> "Direction", val |-> "west"]>>
    /\ prev.command = "set"
    /\ prev.args = <<>>
    /\ prev.ev[1].val = "Error parsing argument of type Pattern: argument can't be inferred"

\* The operations that write cells
Dirtying ==
    {"execute_set", "execute_replace", "execute_cut", "execute_move", "execute_stack",
     "execute_paste", "execute_undo"}

\* The cells the latest dispatch left with another id than they had
Dirtied == {c \in Cells : blocks[c] # last.blocks[c]}

\* C17: in one invocation of set, replace, cut, move, stack, paste or undo
\* no chunk is sent twice to the same player, and every chunk with a cell
\* the command changed is sent to every player of the plot
C17_ChunkOncePerObserver ==
    (last.invoked # None /\ last.invoked[1] \in Dirtying /\ last.ret = "handled") =>
        /\ \A i \in EvIdx({"chunk"}) : \A j \in EvIdx({"chunk"}) :
              (last.ev[i].who = last.ev[j].who /\ last.ev[i].pos = last.ev[j].pos) => i = j
        /\ \A c \in Dirtied :
              \A q \in PlotPlayers(Start(blocks, ents, last.players),
                                   PlayerPlot(last.players[last.player])) :
                  \E i \in EvIdx({"chunk"}) :
                      /\ last.ev[i].who = q
                      /\ last.ev[i].pos = BlockPos(Shr4(c.x), 0, Shr4(c.z))

\* The pattern the token of the latest dispatch parses to
LastPattern == from_str(last.args[1])

\* C18: pick on a pattern whose weights total zero returns the block of the
\* first part: a set with such a pattern writes that block to every cell of
\* the selection
C18_ZeroWeightPick ==
    (last.command = "set" /\ Len(last.args) = 1 /\ LastPattern.kind = "ok"
        /\ SumWeights(LastPattern.parts) = 0) =>
        /\ last.ret = "handled"
        /\ EvIdx({"set_block"}) # {}
        /\ \A i \in EvIdx({"set_block"}) : last.ev[i].val = LastPattern.parts[1].block_id

\* The comma-separated parts of the token of the latest dispatch
LastParts == {Split(last.args[1], ",")[k] : k \in 1..Len(Split(last.args[1], ","))}

\* C19: from_str is total: a set with one token either runs with a pattern
\* of at least one part and no negative weight, or is refused with the
\* invalid-pattern error carrying the text of one of the token's parts, or
\* with the unknown-block error; it never ends in a fatal fault of the parse
C19_PatternParseTotal ==
    (last.command = "set" /\ Len(last.args) = 1 /\ last.ret \in {"handled", "panic"}) =>
        \/ /\ last.invoked = Some("execute_set")
           /\ last.arguments[1].kind = "Pattern"
           /\ Len(last.arguments[1].val.parts) >= 1
           /\ \A k \in 1..Len(last.arguments[1].val.parts) :
                  last.arguments[1].val.parts[k].weight >= 0
        \/ /\ OnlyRefused
           /\ last.invoked = None
           /\ \E part \in LastParts :
                  \/ last.ev[1].val = "Error parsing argument of type Pattern: invalid pattern: "
                                          \o Join(part)
                  \/ last.ev[1].val = "Error parsing argument of type Pattern: unknown block: "
                                          \o Join(part)

\* The schematic files without a defect
SoundFiles == {"good"}

\* C20: a load of a file that cannot be opened or decoded or that has a
\* structural defect ends with the generic load error sent to the player,
\* the player's clipboard, set or not, as it was, and no fatal fault
C20_LoadFailureIsNoResult ==
    (last.command = "load" /\ Len(last.args) = 1 /\ last.ret \in {"handled", "panic"}
        /\ Join(last.args[1]) \notin SoundFiles) =>
        /\ OnlyRefused
        /\ last.ev[1].kind = "error"
        /\ last.ev[1].val = "There was an error loading the schematic."
        /\ StateKept

\* The undo stack of the player of the latest dispatch after it
StackAfter == players[last.player].worldedit_undo

\* C21: a dispatch for one player leaves the undo stack of every other
\* player as it was and pushes and pops only on the stack of its own player:
\* that stack is unchanged, or grown by the one entry the dispatch pushed, or
\* shortened by its top entry, which an undo in the entry's plot replays
C21_UndoPerUser ==
    last.ret = "handled" =>
        /\ \A q \in Players \ {last.player} :
              players[q].worldedit_undo = last.players[q].worldedit_undo
        /\ \A i \in EvIdx({"undo_push", "undo_pop"}) : last.ev[i].who = last.player
        /\ \/ StackAfter = StackBefore(last) /\ EvIdx({"undo_push", "undo_pop"}) = {}
           \/ /\ Cardinality(EvIdx({"undo_push"})) = 1
              /\ EvIdx({"undo_pop"}) = {}
              /\ Len(StackAfter) = Len(StackBefore(last)) + 1
              /\ SubSeq(StackAfter, 1, Len(StackBefore(last))) = StackBefore(last)
           \/ /\ Invoked("execute_undo")
              /\ StackBefore(last) # <<>>
              /\ EvIdx({"undo_push"}) = {}
              /\ StackAfter = SubSeq(StackBefore(last), 1, Len(StackBefore(last)) - 1)
              /\ \A i \in EvIdx({"set_block"}) :
                    /\ InSnapshot(TopUndo(last), last.ev[i].pos)
                    /\ last.ev[i].val = SnapshotId(TopUndo(last), last.ev[i].pos)

\* A undoes its own edit after B edited the same plot, and the entry B
\* pushed stays on B's stack
C21_UndoAfterOtherEdit ==
    /\ last.player = "A"
    /\ Invoked("execute_undo")
    /\ EvIdx({"undo_pop"}) # {}
    /\ EvIdx({"set_block"}) # {}
    /\ prev.player = "B"
    /\ \E i \in 1..Len(prev.ev) : prev.ev[i].kind = "undo_push"
    /\ Len(players["B"].worldedit_undo) = 1
    /\ StackAfter = <<>>

\* The plot the player of the latest dispatch stood in when it began
LastPlot == PlayerPlot(last.players[last.player])

Snapshots ==
    UNION {{players[p].worldedit_clipboard[i] :
                i \in 1..Len(players[p].worldedit_clipboard)}
           \cup {players[p].worldedit_undo[i].clipboard :
                    i \in 1..Len(players[p].worldedit_undo)} : p \in Players}

KeysInside(cb) ==
    \A k \in DOMAIN cb.block_entities :
        /\ 0 <= k.x /\ k.x < cb.size_x
        /\ 0 <= k.y /\ k.y < cb.size_y
        /\ 0 <= k.z /\ k.z < cb.size_z

\* C23: every key of the block entities of every snapshot a player holds,
\* captured or imported from a schematic, lies inside the snapshot's size
C23_MetadataKeysInside == \A cb \in Snapshots : KeysInside(cb)

\* The result of Argument::parse for place i of the latest dispatch
ParsedAt(i) ==
    ArgumentParse(last.players[last.player], LastDescs[i],
                  IF i <= Len(last.positional) THEN Some(last.positional[i]) ELSE None)

\* C24: when an operation is invoked the argument list of the context holds
\* one parsed value per argument description of the command, in the order of
\* the descriptions, and the operation reads no index at or past its length
C24_OneArgumentPerDescriptor ==
    last.invoked # None =>
        /\ Len(last.arguments) = Len(LastDescs)
        /\ \A i \in 1..Len(LastDescs) :
              ParsedAt(i).kind = "ok" /\ last.arguments[i] = ParsedAt(i).arg
        /\ ~(last.ret = "panic"
                /\ last.fault \in {IndexFault(len, i) : len \in 0..2, i \in 0..2})

\* A replace reads both its arguments, the mask and the pattern
C24_ReplaceReadsTwo ==
    /\ Invoked("execute_replace")
    /\ Len(last.positional) = 2
    /\ Len(last.arguments) = 2
    /\ last.arguments[1].kind = "Mask"
    /\ last.arguments[2].kind = "Pattern"
    /\ last.ret = "handled"

\* C25: pick on a pattern whose weights total more than zero returns the
\* block of one of the parts of the pattern, whatever the draw: a set with
\* such a pattern writes only blocks of its parts
C25_PickReturnsPart ==
    (last.command = "set" /\ Len(last.args) = 1 /\ LastPattern.kind = "ok"
        /\ SumWeights(LastPattern.parts) > 0 /\ Invoked("execute_set")) =>
        \A i \in EvIdx({"set_block"}) :
            \E k \in 1..Len(LastPattern.parts) :
                last.ev[i].val = LastPattern.parts[k].block_id

\* The varint at byte i (0-based) read as the format has it: groups of 7
\* bits, the lowest first, up to the first byte without the high bit and at
\* most 5 bytes: [id, i]
RECURSIVE VarintAt(_, _, _, _)
VarintAt(bytes, i, varint_len, id) ==
    IF varint_len >= 5 \/ i >= Len(bytes) THEN [id |-> id, i |-> i]
    ELSE IF ~Continues(bytes[i + 1])
    THEN [id |-> OrGroup(id, bytes[i + 1], varint_len), i |-> i + 1]
    ELSE VarintAt(bytes, i + 1, varint_len + 1, OrGroup(id, bytes[i + 1], varint_len))

\* The first n varints of bytes from byte i on
RECURSIVE VarintsFrom(_, _, _)
VarintsFrom(bytes, i, n) ==
    IF n = 0 THEN <<>>
    ELSE <<VarintAt(bytes, i, 0, [hi |-> 0, lo |-> 0]).id>>
            \o VarintsFrom(bytes, VarintAt(bytes, i, 0, [hi |-> 0, lo |-> 0]).i, n - 1)

\* The schematic files whose BlockData holds a varint for every cell
FullFiles == {"good", "far", "long"}

\* The file the latest dispatch, a load, names
LastBlob == SchemFiles[Join(last.args[1])].blob

\* C26: a load of a schematic decodes BlockData as varints of at most 5
\* bytes each, one per cell with x running fastest, then z, then y, and
\* stores for the cell at index y * size_z * size_x + z * size_x + x the block
\* the palette gives for the cell's varint
C26_VarintDecoding ==
    (last.command = "load" /\ Len(last.args) = 1 /\ Join(last.args[1]) \in FullFiles) =>
        /\ last.ret = "handled"
        /\ players[last.player].worldedit_clipboard # None
        /\ LET cb == players[last.player].worldedit_clipboard[1]
               n == cb.size_x * cb.size_y * cb.size_z
               ids == VarintsFrom(LastBlob.BlockData.v, 0, n)
           IN  \A x \in 0..(cb.size_x - 1), y \in 0..(cb.size_y - 1),
                  z \in 0..(cb.size_z - 1) :
                  LET j == y * cb.size_z * cb.size_x + z * cb.size_x + x
                  IN  \E k \in DOMAIN LastBlob.Palette.v :
                         /\ ids[j + 1] = [hi |-> 0, lo |-> LastBlob.Palette.v[k].v]
                         /\ cb.data[j + 1] = PaletteEntry(k, LastBlob.Palette.v[k]).block

\* The clipboard the latest dispatch, a paste, pasted, the cells of its
\* destination cuboid and the id the clipboard holds for such a cell
PastedClipboard == last.players[last.player].worldedit_clipboard[1]

DestCells ==
    {BlockPos(x, y, z) : x \in PasteDest(last).lo.x..PasteDest(last).hi.x,
                         y \in PasteDest(last).lo.y..PasteDest(last).hi.y,
                         z \in PasteDest(last).lo.z..PasteDest(last).hi.z}

PastedId(c) ==
    PastedClipboard.data[(c.y - PasteDest(last).lo.y) * PastedClipboard.size_z
                                * PastedClipboard.size_x
                            + (c.z - PasteDest(last).lo.z) * PastedClipboard.size_x
                            + (c.x - PasteDest(last).lo.x) + 1]

\* The cells the latest dispatch wrote
Written == {last.ev[i].pos : i \in EvIdx({"set_block"})}

\* C27: a paste with the flag a writes exactly the cells of the destination
\* cuboid for which the clipboard holds a block other than air, a paste
\* without it writes every cell of the cuboid; each written cell gets the id
\* the clipboard holds for it and every other cell is left as it was
C27_PasteWrites ==
    (Invoked("execute_paste") /\ last.ret = "handled") =>
        /\ Written = {c \in DestCells : ~has_flag(last, "a") \/ PastedId(c) # AIR}
        /\ \A i \in EvIdx({"set_block"}) : last.ev[i].val = PastedId(last.ev[i].pos)
        /\ \A c \in Cells \ Written : blocks[c] = last.blocks[c]

\* A paste with the flag a of a clipboard that holds air and blocks writes
\* some cells of the cuboid and leaves a block of the world where the
\* clipboard holds air
C27_PasteSkipsAir ==
    /\ Invoked("execute_paste")
    /\ last.ret = "handled"
    /\ has_flag(last, "a")
    /\ Written # {}
    /\ \E c \in (DestCells \cap Cells) \ Written : blocks[c] # AIR

\* The operations of set, replace, cut, paste and undo
Resending ==
    {"execute_set", "execute_replace", "execute_cut", "execute_paste", "execute_undo"}

\* The cuboid the latest dispatch writes in: the destination of a paste, the
\* cuboid of the entry an undo replays, else the selection
MutatedCuboid ==
    CASE Invoked("execute_paste") -> PasteDest(last)
      [] Invoked("execute_undo") ->
            [lo |-> TopUndo(last).pos,
             hi |-> BlockPos(TopUndo(last).pos.x + TopUndo(last).clipboard.size_x - 1,
                             TopUndo(last).pos.y + TopUndo(last).clipboard.size_y - 1,
                             TopUndo(last).pos.z + TopUndo(last).clipboard.size_z - 1)]
      [] OTHER ->
            [lo |-> PosMin(last.players[last.player].first_position[1],
                           last.players[last.player].second_position[1]),
             hi |-> PosMax(last.players[last.player].first_position[1],
                           last.players[last.player].second_position[1])]

\* C28: when a set, a replace, a cut, a paste or an undo that replays an
\* entry has completed, every chunk of the plot with a cell in the cuboid
\* the command writes in was sent to every player of the plot after the last
\* cell write, whether a cell changed or not
C28_ChunksResent ==
    (last.invoked # None /\ last.invoked[1] \in Resending /\ last.ret = "handled"
        /\ (Invoked("execute_undo") => UndoHere)) =>
        \A cx \in Shr4(MutatedCuboid.lo.x)..Shr4(MutatedCuboid.hi.x),
           cz \in Shr4(MutatedCuboid.lo.z)..Shr4(MutatedCuboid.hi.z) :
            HasChunk(LastPlot, cx, cz) =>
                \A q \in PlotPlayers(last, LastPlot) :
                    \E i \in EvIdx({"chunk"}) :
                        /\ last.ev[i].who = q
                        /\ last.ev[i].pos = BlockPos(cx, 0, cz)
                        /\ \A j \in EvIdx({"set_block"}) : j < i

\* A set that changes no cell still sends the chunks of its selection to
\* both players of the plot
C28_ResentWithoutChange ==
    /\ Invoked("execute_set")
    /\ last.ret = "handled"
    /\ EvIdx({"set_block"}) # {}
    /\ blocks = last.blocks
    /\ \A q \in Players : \E i \in EvIdx({"chunk"}) : last.ev[i].who = q

\* C29: in a paste every block entity write comes after the last cell
\* write, and the block entity writes are those of the entries of the
\* clipboard, each at its key moved by the offset of the destination
C29_EntitiesAfterCells ==
    (Invoked("execute_paste") /\ last.ret = "handled") =>
        /\ \A i \in EvIdx({"set_entity"}) : \A j \in EvIdx({"set_block"}) : j < i
        /\ {<<last.ev[i].pos, last.ev[i].val>> : i \in EvIdx({"set_entity"})}
              = {<<PosAdd(k, PasteDest(last).lo), PastedClipboard.block_entities[k]>> :
                    k \in DOMAIN PastedClipboard.block_entities}

\* A paste away from the origin of a clipboard with a block entity writes
\* cells and then the block entity
C29_EntityMoved ==
    /\ Invoked("execute_paste")
    /\ last.ret = "handled"
    /\ EvIdx({"set_block"}) # {}
    /\ EvIdx({"set_entity"}) # {}
    /\ PasteDest(last).lo # BlockPos(0, 0, 0)
    /\ \A i \in EvIdx({"set_entity"}) :
          last.ev[i].pos \notin DOMAIN PastedClipboard.block_entities

\* The chunk ranges of the selection the operation was built from
TrackedX ==
    Shr4(Min(players["A"].first_position[1].x, players["A"].second_position[1].x))
        ..Shr4(Max(players["A"].first_position[1].x, players["A"].second_position[1].x))
TrackedZ ==
    Shr4(Min(players["A"].first_position[1].z, players["A"].second_position[1].z))
        ..Shr4(Max(players["A"].first_position[1].z, players["A"].second_position[1].z))

\* The calls of update_block so far with a position in the chunk (cx, cz)
HitsIn(cx, cz) ==
    {i \in 1..Len(last.ev) : Shr4(last.ev[i].pos.x) = cx /\ Shr4(last.ev[i].pos.z) = cz}

\* C30: an operation built from two corners has one record, with the count
\* 0, for each chunk of the ranges of the corners shifted right by 4 and no
\* other record; update_block adds one to the count of the record of the
\* position's chunk and changes nothing when there is none; blocks_updated is
\* the number of calls that found a record
C30_OperationCounts ==
    /\ \A cx \in TrackedX, cz \in TrackedZ :
          Cardinality({k \in 1..Len(prev.op.records) :
                          /\ prev.op.records[k].chunk_x = cx
                          /\ prev.op.records[k].chunk_z = cz}) = 1
    /\ \A k \in 1..Len(prev.op.records) :
          /\ prev.op.records[k].chunk_x \in TrackedX
          /\ prev.op.records[k].chunk_z \in TrackedZ
          /\ prev.op.records[k].block_count = 0
    /\ Len(last.op.records) = Len(prev.op.records)
    /\ \A k \in 1..Len(last.op.records) :
          /\ last.op.records[k].chunk_x = prev.op.records[k].chunk_x
          /\ last.op.records[k].chunk_z = prev.op.records[k].chunk_z
          /\ last.op.records[k].block_count
                = Cardinality(HitsIn(last.op.records[k].chunk_x, last.op.records[k].chunk_z))
    /\ blocks_updated(last.op)
          = Cardinality(UNION {HitsIn(cx, cz) : cx \in TrackedX, cz \in TrackedZ})

\* An operation over four chunks after a call in one of its chunks and a
\* call outside them
C30_HitAndMiss ==
    /\ Len(last.op.records) = 4
    /\ Len(last.ev) = 2
    /\ blocks_updated(last.op) = 1
    /\ \E k \in 1..4 : last.op.records[k].block_count = 1

\* The tokens of the latest dispatch that are no flag tokens, in order
InputPositional == TokensAt(LastArgs, {i \in 1..Len(LastArgs) : ~IsFlagToken(LastArgs[i])}, 1)

\* The message of the earliest check the command line of the latest dispatch
\* fails, in the order selection, clipboard, flags, too many arguments,
\* argument parsing; None when it fails none
EarliestFailure ==
    LET pl == last.players[last.player]
        cmd == COMMANDS[LastName]
        parsed == ParseArgs(pl, cmd.arguments, InputPositional, <<>>)
    IN  IF cmd.requires_positions /\ PositionsCheck(pl, PlayerPlot(pl)) # None
        THEN PositionsCheck(pl, PlayerPlot(pl))
        ELSE IF cmd.requires_clipboard /\ pl.worldedit_clipboard = None
        THEN Some("Your clipboard is empty. Use //copy first.")
        ELSE IF Undeclared # {}
        THEN Some("Unknown flag: "
                    \o LastLetters[CHOOSE k \in Undeclared : \A j \in Undeclared : k <= j])
        ELSE IF Len(InputPositional) > Len(cmd.arguments)
        THEN Some("Too many arguments.")
        ELSE IF parsed.kind = "err" THEN Some(parsed.text)
        ELSE None

\* C31: a command line that fails a check of the dispatch gets exactly one
\* message, that of the earliest check it fails in the order selection,
\* clipboard, flags, too many arguments, argument parsing, and no operation
\* is invoked; an operation is invoked only for a line that fails none
C31_ChecksInOrder ==
    (Known(last.command) /\ last.ret \in {"handled", "panic"}) =>
        /\ EarliestFailure # None =>
              /\ OnlyRefused
              /\ last.ev[1].val = EarliestFailure[1]
              /\ last.invoked = None
        /\ last.invoked # None => EarliestFailure = None

\* C32: when as many undos as there were commands have followed a sequence
\* of sets, replaces and pastes of one player in one plot, every cell holds
\* the id it held before the first command and the undo stack of the player
\* has the length it had
C32_UndoAllRestores ==
    (last.command = "undo" /\ steps = 0) =>
        /\ \A c \in Cells : blocks[c] = InitBlocks[c]
        /\ players["A"].worldedit_undo = <<>>

\* The last of at least two undos in a row, after commands that had changed
\* cells
C32_TwoUndone ==
    /\ last.command = "undo"
    /\ steps = 0
    /\ prev.command = "undo"
    /\ prev.blocks # InitBlocks
    /\ last.blocks # InitBlocks
    /\ last.blocks # prev.blocks

\* The least and the greatest cell of the selection the player of the
\* latest dispatch had
SelectionCuboid ==
    [lo |-> PosMin(last.players[last.player].first_position[1],
                   last.players[last.player].second_position[1]),
     hi |-> PosMax(last.players[last.player].first_position[1],
                   last.players[last.player].second_position[1])]

\* The id is the id of a part of the pattern
PartOf(pattern, id) == \E k \in 1..Len(pattern.parts) : pattern.parts[k].block_id = id

\* C33: set and replace write only cells of the selection cuboid: after a
\* set every cell of the cuboid holds the id of a part of the pattern, after
\* a replace every cell of the cuboid that matched the mask does and every
\* other keeps its id; no cell outside the cuboid, no corner of a selection
\* and no clipboard changes
C33_WritesInsideSelection ==
    ((Invoked("execute_set") \/ Invoked("execute_replace")) /\ last.ret = "handled") =>
        /\ \A i \in EvIdx({"set_block"}) :
              InCuboid(last.ev[i].pos, SelectionCuboid.lo, SelectionCuboid.hi)
        /\ \A c \in Cells :
              IF ~InCuboid(c, SelectionCuboid.lo, SelectionCuboid.hi)
              THEN blocks[c] = last.blocks[c]
              ELSE IF Invoked("execute_set")
              THEN PartOf(last.arguments[1].val, blocks[c])
              ELSE IF matches(last.arguments[1].val, last.blocks[c])
              THEN PartOf(last.arguments[2].val, blocks[c])
              ELSE blocks[c] = last.blocks[c]
        /\ \A p \in Players :
              /\ players[p].first_position = last.players[p].first_position
              /\ players[p].second_position = last.players[p].second_position
              /\ players[p].worldedit_clipboard = last.players[p].worldedit_clipboard

\* The translation of the latest move: its amount along its direction
MoveDelta ==
    OffsetPos(last.arguments[2].val, BlockPos(0, 0, 0), last.arguments[1].val)

\* A move that ran to its end without the flag a
MovedPlain ==
    /\ Invoked("execute_move")
    /\ last.ret = "handled"
    /\ ~has_flag(last, "a")

\* C34: after a move by n in direction d without the flag a every cell of the
\* translated cuboid holds the id its source cell had before, every cell of
\* the selection outside the translated cuboid holds 0, the corners of the
\* selection are shifted by n*d if and only if the flag s is active, and the
\* clipboard is unchanged
C34_MoveTranslates ==
    MovedPlain =>
        /\ \A c \in Cells :
              IF InCuboid(c, PosAdd(SelectionCuboid.lo, MoveDelta),
                          PosAdd(SelectionCuboid.hi, MoveDelta))
              THEN blocks[c] = GetBlockRaw(last, LastPlot, PosSub(c, MoveDelta))
              ELSE InCuboid(c, SelectionCuboid.lo, SelectionCuboid.hi) => blocks[c] = AIR
        /\ IF has_flag(last, "s")
           THEN /\ players[last.player].first_position =
                      Some(PosAdd(last.players[last.player].first_position[1], MoveDelta))
                /\ players[last.player].second_position =
                      Some(PosAdd(last.players[last.player].second_position[1], MoveDelta))
           ELSE /\ players[last.player].first_position =
                      last.players[last.player].first_position
                /\ players[last.player].second_position =
                      last.players[last.player].second_position
        /\ players[last.player].worldedit_clipboard =
              last.players[last.player].worldedit_clipboard

\* A move with the flag s whose translated cuboid overlaps the selection:
\* a cell of both holds another id than before, the id its source cell had
C34_MoveOverlapping ==
    /\ MovedPlain
    /\ has_flag(last, "s")
    /\ MoveDelta # BlockPos(0, 0, 0)
    /\ \E c \in Cells :
          /\ InCuboid(c, SelectionCuboid.lo, SelectionCuboid.hi)
          /\ InCuboid(c, PosAdd(SelectionCuboid.lo, MoveDelta),
                      PosAdd(SelectionCuboid.hi, MoveDelta))
          /\ blocks[c] # last.blocks[c]
          /\ blocks[c] # AIR

\* A stack that ran to its end without the flag a
StackedPlain ==
    /\ Invoked("execute_stack")
    /\ last.ret = "handled"
    /\ ~has_flag(last, "a")

\* The translation of the i-th copy of the latest stack: i times the extent
\* of the selection along the direction
StackDelta(i) ==
    LET d == last.arguments[2].val
        extent == CASE d \in {"north", "south"} ->
                          SelectionCuboid.hi.z - SelectionCuboid.lo.z + 1
                    [] d \in {"east", "west"} ->
                          SelectionCuboid.hi.x - SelectionCuboid.lo.x + 1
                    [] d \in {"up", "down"} ->
                          SelectionCuboid.hi.y - SelectionCuboid.lo.y + 1
    IN  OffsetPos(d, BlockPos(0, 0, 0), i * extent)

\* The cells of the selection of the latest dispatch
SelectionCells ==
    {c \in Cells : InCuboid(c, SelectionCuboid.lo, SelectionCuboid.hi)}

\* The cell holds the id after the latest dispatch: by the store inside the
\* modelled window, by the last write of the dispatch to it outside
HoldsAfter(c, id) ==
    IF c \in Cells THEN blocks[c] = id
    ELSE LET writes == {i \in EvIdx({"set_block"}) :
                           last.ev[i].pos = c /\ last.ev[i].who = LastPlot}
         IN  /\ writes # {}
             /\ last.ev[CHOOSE i \in writes : \A j \in writes : j <= i].val = id

\* C35: after a stack of count n without the flag a, for each i in 1..n the
\* cuboid translated by i times the extent of the selection along the
\* direction holds a copy of the selection as it was before, the cells of the
\* selection are unchanged, and a count of 0 changes no cell
C35_StackCopies ==
    StackedPlain =>
        /\ \A i \in 1..last.arguments[1].val : \A c \in SelectionCells :
              HoldsAfter(PosAdd(c, StackDelta(i)), last.blocks[c])
        /\ \A c \in SelectionCells : blocks[c] = last.blocks[c]
        /\ last.arguments[1].val = 0 =>
              /\ blocks = last.blocks
              /\ EvIdx({"set_block"}) = {}

\* A stack of count 2 whose first copy changed a cell of the window to an id
\* other than 0
C35_StackedTwice ==
    /\ StackedPlain
    /\ last.arguments[1].val = 2
    /\ \E c \in SelectionCells :
          /\ PosAdd(c, StackDelta(1)) \in Cells
          /\ blocks[PosAdd(c, StackDelta(1))] # last.blocks[PosAdd(c, StackDelta(1))]
          /\ blocks[PosAdd(c, StackDelta(1))] # AIR

\* A stack of count 0 after a command that changed cells
C35_StackedZero ==
    /\ StackedPlain
    /\ last.arguments[1].val = 0
    /\ prev.blocks # last.blocks

\* The clipboard is the snapshot of the selection of the latest dispatch as
\* the cells were before it, anchored at the floored position of the player
\* relative to the least corner
SnapshotOfSelection(cb) ==
    /\ cb.size_x = SelectionCuboid.hi.x - SelectionCuboid.lo.x + 1
    /\ cb.size_y = SelectionCuboid.hi.y - SelectionCuboid.lo.y + 1
    /\ cb.size_z = SelectionCuboid.hi.z - SelectionCuboid.lo.z + 1
    /\ Len(cb.data) = cb.size_x * cb.size_y * cb.size_z
    /\ BlockPos(cb.offset_x, cb.offset_y, cb.offset_z) =
          PosSub(PlayerFloorPos(last.players[last.player]), SelectionCuboid.lo)
    /\ \A c \in SelectionCells :
          SnapshotId([pos |-> SelectionCuboid.lo, clipboard |-> cb], c) = last.blocks[c]

\* C36: a cut installs as the clipboard the snapshot of the selection as it
\* was before the clearing and leaves every cell of the cuboid at 0; a copy
\* installs the same snapshot, changes no cell and no undo stack and has no
\* chunk sent
C36_CutAndCopy ==
    /\ (Invoked("execute_cut") /\ last.ret = "handled") =>
          /\ players[last.player].worldedit_clipboard # None
          /\ SnapshotOfSelection(players[last.player].worldedit_clipboard[1])
          /\ \A c \in SelectionCells : blocks[c] = AIR
    /\ (Invoked("execute_copy") /\ last.ret = "handled") =>
          /\ players[last.player].worldedit_clipboard # None
          /\ SnapshotOfSelection(players[last.player].worldedit_clipboard[1])
          /\ blocks = last.blocks
          /\ \A p \in Players : players[p].worldedit_undo = last.players[p].worldedit_undo
          /\ EvIdx({"chunk", "set_block"}) = {}

\* A cut of cells that held ids other than 0, by a player who stands away
\* from the least corner of the selection, after a copy
C36_CutAfterCopy ==
    /\ Invoked("execute_cut")
    /\ last.ret = "handled"
    /\ prev.invoked = Some("execute_copy")
    /\ \E c \in SelectionCells : last.blocks[c] # AIR
    /\ PlayerFloorPos(last.players[last.player]) # SelectionCuboid.lo
    /\ players[last.player].worldedit_clipboard # prev.players[last.player].worldedit_clipboard

\* C37: an undo on an empty stack sends the error that nothing is left to
\* undo and changes nothing: the stack stays empty, no cell and no metadata is
\* written and no chunk is sent; every undo on a stack that is not empty
\* shortens it by exactly one entry and pushes none
C37_UndoStackLength ==
    (Invoked("execute_undo") /\ last.ret = "handled") =>
        IF StackBefore(last) = <<>>
        THEN /\ OnlyRefused
             /\ last.ev[1].kind = "error"
             /\ last.ev[1].val = "There is nothing left to undo."
             /\ StateKept
             /\ players[last.player].worldedit_undo = <<>>
        ELSE /\ players[last.player].worldedit_undo =
                   SubSeq(StackBefore(last), 1, Len(StackBefore(last)) - 1)
             /\ EvIdx({"undo_push"}) = {}
             /\ \A p \in Players \ {last.player} :
                   players[p].worldedit_undo = last.players[p].worldedit_undo

\* An undo on the empty stack, right after an undo that took the only entry
\* and changed cells
C37_UndoUntilEmpty ==
    /\ Invoked("execute_undo")
    /\ last.ret = "handled"
    /\ StackBefore(last) = <<>>
    /\ prev.invoked = Some("execute_undo")
    /\ Len(StackBefore(prev)) = 1
    /\ prev.blocks # last.blocks

\* A corner of the selection of the player of the dispatch is unset
CornerUnset(d) ==
    \/ d.players[d.player].first_position = None
    \/ d.players[d.player].second_position = None

\* C38: after a sel both corners of the player are unset, and sel changes no
\* cell, no clipboard and no undo stack; as long as a corner is unset every
\* command that requires a selection sends the error to make a region
\* selection first and changes nothing
C38_SelectionCleared ==
    /\ (Invoked("execute_sel") /\ last.ret = "handled") =>
          /\ players[last.player].first_position = None
          /\ players[last.player].second_position = None
          /\ blocks = last.blocks
          /\ ents = last.ents
          /\ \A p \in Players :
                /\ players[p].worldedit_clipboard = last.players[p].worldedit_clipboard
                /\ players[p].worldedit_undo = last.players[p].worldedit_undo
    /\ (Known(last.command) /\ LastName \in NeedSelection /\ CornerUnset(last)) =>
          /\ OnlyRefused
          /\ last.ev[1].kind = "error"
          /\ last.ev[1].val = "Make a region selection first."
          /\ last.invoked = None
          /\ StateKept
    /\ (prev.invoked = Some("execute_sel") /\ prev.ret = "handled"
            /\ last.invoked \notin {Some("execute_pos1"), Some("execute_pos2")}
            /\ last.ret # "none") =>
          /\ CornerUnset(last)
          /\ players[last.player].first_position = None
          /\ players[last.player].second_position = None

\* A set refused for the missing selection right after a sel that had unset
\* both corners of a selection
C38_SetAfterSel ==
    /\ prev.invoked = Some("execute_sel")
    /\ ~CornerUnset(prev)
    /\ last.command = "set"
    /\ last.args = <<Tok_stone>>
    /\ CornerUnset(last)
    /\ last.ev[1].val = "Make a region selection first."

\* The place of an event kind in a paste: cell writes, then chunks, then
\* metadata writes
PasteRank(kind) ==
    CASE kind = "set_block" -> 1
      [] kind = "chunk" -> 2
      [] kind = "set_entity" -> 3

\* The events of the latest dispatch that a paste or a clearing produces
PasteEvents == EvIdx({"set_block", "chunk", "set_entity"})

\* The events after which the next such event belongs to an earlier place:
\* there a new paste or clearing must have begun
PasteRestarts ==
    {i \in PasteEvents :
        \E j \in PasteEvents :
            /\ i < j
            /\ \A k \in PasteEvents : ~(i < k /\ k < j)
            /\ PasteRank(last.ev[j].kind) < PasteRank(last.ev[i].kind)}

\* The number of pastes and clearings of the latest dispatch: one paste for
\* paste and undo, a clearing and a paste for move, as many pastes as the
\* count for stack
PasteCount ==
    CASE Invoked("execute_paste") \/ Invoked("execute_undo") -> 1
      [] Invoked("execute_move") -> 2
      [] Invoked("execute_stack") -> last.arguments[1].val

\* C39: within every paste of a paste, undo, move or stack the chunks are
\* sent after all cell writes and before every metadata write of that paste
C39_ChunksBetweenWrites ==
    ((Invoked("execute_paste") \/ Invoked("execute_undo") \/ Invoked("execute_move")
         \/ Invoked("execute_stack")) /\ last.ret = "handled") =>
        /\ PasteCount = 0 => PasteEvents = {}
        /\ PasteCount > 0 => Cardinality(PasteRestarts) <= PasteCount - 1
        /\ \A k \in EvIdx({"set_entity"}) :
              \E j \in EvIdx({"chunk"}) :
                 /\ j < k
                 /\ \A i \in EvIdx({"set_block"}) : ~(j < i /\ i < k)

\* A move whose paste wrote cells, sent chunks and wrote metadata, after the
\* clearing had written cells and sent chunks
C39_MoveWithMetadata ==
    /\ Invoked("execute_move")
    /\ last.ret = "handled"
    /\ Cardinality(PasteRestarts) = 1
    /\ \E i \in EvIdx({"set_block"}), j \in EvIdx({"chunk"}), k \in EvIdx({"set_entity"}) :
          /\ i < j
          /\ j < k
          /\ \E r \in PasteRestarts : r < i

====
